---------------------------- MODULE Spec2Model ----------------------------
(***************************************************************************)
(* A model of the caching and scoring core of the skincare recommendation  *)
(* backend (src/server.js, first variant: lines 1-1209).                   *)
(*                                                                         *)
(* Strings are TLA+ strings; TLC evaluates Len, SubSeq, Head, Tail and \o  *)
(* on them, so the JavaScript string routines are modelled character by    *)
(* character. Time is counted in minutes: Date.now() is the variable now.  *)
(***************************************************************************)
EXTENDS Integers, Sequences, FiniteSets, TLC

(***************************************************************************)
(* Characters                                                              *)
(***************************************************************************)

\* The characters of the model in UTF-16 code unit order (the order that
\* Array.prototype.sort() and String comparison use).
CodeOrder == "\n (),-./0123456789;ABCDEFGHIJKLMNOPQRSTUVWXYZ[]_abcdefghijklmnopqrstuvwxyz"

UpperChars == "ABCDEFGHIJKLMNOPQRSTUVWXYZ"
LowerChars == "abcdefghijklmnopqrstuvwxyz"
DigitChars == "0123456789"

CharAt(s, i) == SubSeq(s, i, i)

IndexIn(alphabet, c) ==
    IF \E i \in 1..Len(alphabet) : CharAt(alphabet, i) = c
    THEN CHOOSE i \in 1..Len(alphabet) : CharAt(alphabet, i) = c
    ELSE 0

CharCode(c) == IndexIn(CodeOrder, c)

\* \w of a JavaScript regular expression: [A-Za-z0-9_]
IsWordChar(c) ==
    \/ IndexIn(UpperChars, c) > 0
    \/ IndexIn(LowerChars, c) > 0
    \/ IndexIn(DigitChars, c) > 0
    \/ c = "_"

\* \s of a JavaScript regular expression, and what trim() removes
IsSpace(c) == c \in {" ", "\n"}

LowerChar(c) ==
    IF IndexIn(UpperChars, c) > 0 THEN CharAt(LowerChars, IndexIn(UpperChars, c)) ELSE c

(***************************************************************************)
(* String routines of the JavaScript runtime that the code calls           *)
(***************************************************************************)

\* The recursions below halve the string, so that their depth stays
\* logarithmic in its length.

\* s.toLowerCase()
RECURSIVE toLowerCase(_)
toLowerCase(s) ==
    IF Len(s) = 0 THEN ""
    ELSE IF Len(s) = 1 THEN LowerChar(s)
    ELSE LET h == Len(s) \div 2
         IN  toLowerCase(SubSeq(s, 1, h)) \o toLowerCase(SubSeq(s, h + 1, Len(s)))

\* s.trim()
trim(s) ==
    IF \A i \in 1..Len(s) : IsSpace(CharAt(s, i)) THEN ""
    ELSE LET first == CHOOSE i \in 1..Len(s) :
                          /\ ~IsSpace(CharAt(s, i))
                          /\ \A j \in 1..(i - 1) : IsSpace(CharAt(s, j))
             last == CHOOSE i \in 1..Len(s) :
                          /\ ~IsSpace(CharAt(s, i))
                          /\ \A j \in (i + 1)..Len(s) : IsSpace(CharAt(s, j))
         IN  SubSeq(s, first, last)

\* s.includes(t)
includes(s, t) ==
    \E i \in 1..(Len(s) - Len(t) + 1) : SubSeq(s, i, i + Len(t) - 1) = t

\* s.replace(from, to) with a string pattern: the first occurrence only
replaceFirst(s, from, to) ==
    IF includes(s, from)
    THEN LET i == CHOOSE k \in 1..(Len(s) - Len(from) + 1) :
                      /\ SubSeq(s, k, k + Len(from) - 1) = from
                      /\ \A j \in 1..(k - 1) : SubSeq(s, j, j + Len(from) - 1) # from
         IN  SubSeq(s, 1, i - 1) \o to \o SubSeq(s, i + Len(from), Len(s))
    ELSE s

\* s.replace(/[()\[\]]/g, '')
RECURSIVE StripBrackets(_)
StripBrackets(s) ==
    IF Len(s) = 0 THEN ""
    ELSE IF Len(s) = 1 THEN (IF s \in {"(", ")", "[", "]"} THEN "" ELSE s)
    ELSE LET h == Len(s) \div 2
         IN  StripBrackets(SubSeq(s, 1, h)) \o StripBrackets(SubSeq(s, h + 1, Len(s)))

\* s.replace(/\s+/g, ' ') on the characters lo..hi of s: a run of white space
\* becomes one space, written for the run's first character.
RECURSIVE CollapseRange(_, _, _)
CollapseRange(s, lo, hi) ==
    IF lo > hi THEN ""
    ELSE IF lo = hi
         THEN (IF ~IsSpace(CharAt(s, lo)) THEN CharAt(s, lo)
               ELSE IF lo > 1 /\ IsSpace(CharAt(s, lo - 1)) THEN ""
               ELSE " ")
    ELSE LET h == (lo + hi) \div 2
         IN  CollapseRange(s, lo, h) \o CollapseRange(s, h + 1, hi)

CollapseSpaces(s) == CollapseRange(s, 1, Len(s))

\* The k-th smallest member of a finite set of integers
Kth(S, k) == CHOOSE i \in S : Cardinality({j \in S : j < i}) = k - 1

\* s.split(/[,;\n]/): the pieces between consecutive separator positions
split(s, seps) ==
    LET cuts == {i \in 1..Len(s) : CharAt(s, i) \in seps}
        from(k) == IF k = 1 THEN 1 ELSE Kth(cuts, k - 1) + 1
        to(k) == IF k = Cardinality(cuts) + 1 THEN Len(s) ELSE Kth(cuts, k) - 1
    IN  [k \in 1..(Cardinality(cuts) + 1) |-> SubSeq(s, from(k), to(k))]

\* arr.slice(lo - 1, hi).join(sep)
RECURSIVE JoinRange(_, _, _, _)
JoinRange(arr, sep, lo, hi) ==
    IF lo > hi THEN ""
    ELSE IF lo = hi THEN arr[lo]
    ELSE LET h == (lo + hi) \div 2
         IN  JoinRange(arr, sep, lo, h) \o sep \o JoinRange(arr, sep, h + 1, hi)

\* arr.join(sep)
join(arr, sep) == JoinRange(arr, sep, 1, Len(arr))

\* The default comparison of Array.prototype.sort(): a < b as strings
RECURSIVE StrLess(_, _)
StrLess(a, b) ==
    IF b = "" THEN FALSE
    ELSE IF a = "" THEN TRUE
    ELSE IF Head(a) = Head(b) THEN StrLess(Tail(a), Tail(b))
    ELSE CharCode(Head(a)) < CharCode(Head(b))

\* arr.sort() with the default comparison: the member at position i moves
\* to the position after all smaller members and all equal earlier ones.
sort(arr) ==
    LET rank(i) == Cardinality({j \in 1..Len(arr) :
                        \/ StrLess(arr[j], arr[i])
                        \/ (arr[j] = arr[i] /\ j < i)})
    IN  [k \in 1..Len(arr) |-> arr[CHOOSE i \in 1..Len(arr) : rank(i) = k - 1]]

\* String(n) for a non-negative integer
RECURSIVE NumToString(_)
NumToString(n) ==
    IF n < 10 THEN CharAt(DigitChars, n + 1)
    ELSE NumToString(n \div 10) \o CharAt(DigitChars, (n % 10) + 1)

(***************************************************************************)
(* Ingredient Normalizer and Matcher                                       *)
(***************************************************************************)

normalizeIngredient(ingredient) ==
    CollapseSpaces(StripBrackets(trim(toLowerCase(ingredient))))

\* new Set(list): the distinct members in the order of their first occurrence
Distinct(list) ==
    LET firsts == {i \in 1..Len(list) : \A j \in 1..(i - 1) : list[j] # list[i]}
    IN  [k \in 1..Cardinality(firsts) |-> list[Kth(firsts, k)]]

\* list.map(i => normalizeIngredient(i))
MapNormalize(list) == [i \in 1..Len(list) |-> normalizeIngredient(list[i])]

\* list.filter(i => i.length > 0)
FilterNonEmpty(list) == SelectSeq(list, LAMBDA i : Len(i) > 0)

\* preprocessIngredients on a string: the Set, as the list of its members in
\* insertion order (what Array.from(ingredientSet) yields).
preprocessIngredients(ingredientsText) ==
    IF ingredientsText = "" THEN <<>>
    ELSE Distinct(FilterNonEmpty(MapNormalize(split(ingredientsText, {",", ";", "\n"}))))

\* \b at offset k of s (between s[k] and s[k+1]; the string edges count as
\* non-word characters)
WordBoundary(s, k) ==
    LET before == k >= 1 /\ k <= Len(s) /\ IsWordChar(CharAt(s, k))
        after == k + 1 >= 1 /\ k + 1 <= Len(s) /\ IsWordChar(CharAt(s, k + 1))
    IN  before # after

\* new RegExp(`\\b${escaped}\\b`).test(ingredient): every regex metacharacter
\* of the target is escaped, so the target is matched literally.
RegexWordTest(ingredient, normalized) ==
    \E i \in 1..(Len(ingredient) - Len(normalized) + 1) :
        /\ SubSeq(ingredient, i, i + Len(normalized) - 1) = normalized
        /\ WordBoundary(ingredient, i - 1)
        /\ WordBoundary(ingredient, i + Len(normalized) - 1)

hasIngredient(ingredientSet, searchIngredient) ==
    LET normalized == normalizeIngredient(searchIngredient)
    IN  \/ \E i \in 1..Len(ingredientSet) : ingredientSet[i] = normalized
        \/ \E i \in 1..Len(ingredientSet) : RegexWordTest(ingredientSet[i], normalized)

(***************************************************************************)
(* Cache keys                                                              *)
(***************************************************************************)

\* The key built from the array as given, without the sort
generateScoreCacheKeyUnsorted(productId, conditions) ==
    NumToString(productId) \o "_" \o join(conditions, "_")

\* `${productId}_${conditions.sort().join('_')}`
generateScoreCacheKey(productId, conditions) ==
    NumToString(productId) \o "_" \o join(sort(conditions), "_")

generateProductCacheKey(budget) == "products_budget_" \o budget

(***************************************************************************)
(* Knowledge Base                                                          *)
(***************************************************************************)

KB_acne ==
    [ beneficial |-> <<
            "salicylic acid", "capryloyl salicylic acid", "benzoyl peroxide",
            "niacinamide", "tea tree", "zinc", "sulfur", "glycolic acid",
            "sodium hyaluronate", "adenosine", "tocopherol",
            "ascorbyl glucoside", "sodium lactate", "hydroxyacetophenone",
            "caprylic/capric triglyceride" >>,
      avoid |-> <<
            "coconut oil", "cocoa butter", "palm oil", "isopropyl myristate",
            "stearyl alcohol", "ceteareth-6", "parfum/fragrance",
            "alcohol denat.", "methylparaben", "synthetic wax", "dimethicone" >> ]

KB_oily ==
    [ beneficial |-> <<
            "niacinamide", "salicylic acid", "capryloyl salicylic acid",
            "clay", "charcoal", "witch hazel", "zinc", "silica",
            "glycolic acid", "alcohol denat.", "hydroxyacetophenone" >>,
      avoid |-> <<
            "mineral oil", "petrolatum", "silicones", "heavy oils",
            "dimethicone", "isohexadecane", "caprylic/capric triglyceride",
            "stearyl alcohol", "ceteareth-6", "synthetic wax" >> ]

KB_dry ==
    [ beneficial |-> <<
            "hyaluronic acid", "sodium hyaluronate", "glycerin", "ceramides",
            "squalane", "shea butter", "jojoba oil",
            "caprylic/capric triglyceride", "dimethicone", "tocopherol",
            "tocopheryl acetate", "butylene glycol", "pentylene glycol",
            "propanediol", "dipropylene glycol", "glyceryl stearate",
            "stearyl alcohol", "ceteareth-6" >>,
      avoid |-> <<
            "alcohol denat.", "fragrance", "parfum/fragrance", "sulfates",
            "high ph cleansers", "sodium lauryl sulfate", "methylparaben",
            "phenoxyethanol" >> ]

KB_sensitive ==
    [ beneficial |-> <<
            "centella asiatica", "aloe vera", "oat", "chamomile",
            "allantoin", "bisabolol", "niacinamide", "sodium hyaluronate",
            "glycerin", "dipotassium glycyrrhizate", "tocopherol",
            "adenosine", "caprylic/capric triglyceride", "propanediol" >>,
      avoid |-> <<
            "fragrance", "parfum/fragrance", "essential oils", "alcohol",
            "alcohol denat.", "retinol", "retinyl palmitate",
            "high concentrations of acids", "linalool", "citronellol",
            "limonene", "benzyl alcohol", "benzyl salicylate", "geraniol",
            "hexyl cinnamal", "methylparaben", "phenoxyethanol" >> ]

KB_redness ==
    [ beneficial |-> <<
            "centella asiatica", "niacinamide", "azelaic acid", "green tea",
            "licorice root", "dipotassium glycyrrhizate",
            "sodium hyaluronate", "tocopherol", "adenosine", "glycerin",
            "paeonia suffruticosa root extract",
            "caprylic/capric triglyceride" >>,
      avoid |-> <<
            "fragrance", "parfum/fragrance", "menthol", "eucalyptus",
            "high concentrations of vitamin c", "alcohol denat.", "linalool",
            "citronellol", "limonene", "benzyl alcohol" >> ]

KB_dark_spots ==
    [ beneficial |-> <<
            "vitamin c", "ascorbyl glucoside", "niacinamide", "kojic acid",
            "alpha arbutin", "licorice root", "dipotassium glycyrrhizate",
            "azelaic acid", "glycolic acid", "retinol", "retinyl palmitate",
            "tocopherol", "adenosine", "paeonia suffruticosa root extract",
            "pancratium maritimum extract" >>,
      avoid |-> <<
            "harsh scrubs", "fragrance", "parfum/fragrance",
            "alcohol denat.", "methylparaben" >> ]

KB_wrinkles ==
    [ beneficial |-> <<
            "retinol", "retinyl palmitate", "peptides",
            "palmitoyl tripeptide-1", "palmitoyl tetrapeptide-7",
            "vitamin c", "ascorbyl glucoside", "hyaluronic acid",
            "sodium hyaluronate", "niacinamide", "coenzyme q10", "glycerin",
            "adenosine", "tocopherol", "tocopheryl acetate", "glycolic acid",
            "dimethicone", "caprylic/capric triglyceride" >>,
      avoid |-> <<
            "fragrance", "parfum/fragrance", "alcohol denat.",
            "harsh scrubs", "methylparaben" >> ]

KB_large_pores ==
    [ beneficial |-> <<
            "niacinamide", "salicylic acid", "capryloyl salicylic acid",
            "retinol", "retinyl palmitate", "clay masks", "azelaic acid",
            "glycolic acid", "silica", "adenosine" >>,
      avoid |-> <<
            "heavy oils", "silicones", "dimethicone", "isohexadecane",
            "stearyl alcohol", "synthetic wax" >> ]

KB_uneven_texture ==
    [ beneficial |-> <<
            "glycolic acid", "lactic acid", "retinol", "retinyl palmitate",
            "enzyme exfoliants", "niacinamide", "salicylic acid",
            "capryloyl salicylic acid", "ascorbyl glucoside", "adenosine",
            "sodium hyaluronate" >>,
      avoid |-> <<
            "harsh scrubs", "fragrance", "parfum/fragrance",
            "alcohol denat.", "methylparaben" >> ]

INGREDIENT_DATABASE ==
    ("acne" :> KB_acne) @@
    ("oily" :> KB_oily) @@
    ("dry" :> KB_dry) @@
    ("sensitive" :> KB_sensitive) @@
    ("redness" :> KB_redness) @@
    ("dark-spots" :> KB_dark_spots) @@
    ("wrinkles" :> KB_wrinkles) @@
    ("large-pores" :> KB_large_pores) @@
    ("uneven-texture" :> KB_uneven_texture)

(***************************************************************************)
(* Products                                                                *)
(*                                                                         *)
(* A product object of the store is a record                               *)
(*   [id, name, price, description, short_description, meta_data, has]     *)
(* where has is the set of the properties the object really carries (a     *)
(* property outside has reads as undefined) and a meta_data value is       *)
(* [t, s, a]: a string s (t = "string"), an array a (t = "array") or a     *)
(* plain object (t = "object").                                            *)
(***************************************************************************)

StrValue(s) == [t |-> "string", s |-> s, a |-> <<>>]
ArrValue(a) == [t |-> "array", s |-> "", a |-> a]
ObjValue == [t |-> "object", s |-> "", a |-> <<>>]

\* JavaScript truthiness of a meta_data value: '' is falsy, every array and
\* every object truthy
Truthy(value) == value.t # "string" \/ value.s # ""

\* product.meta_data?.find(meta => meta.key === 'ingredients' || meta.key === '_ingredients')
IsIngredientsMeta(meta) == meta.key = "ingredients" \/ meta.key = "_ingredients"

HasIngredientsMeta(product) ==
    /\ "meta_data" \in product.has
    /\ \E i \in 1..Len(product.meta_data) : IsIngredientsMeta(product.meta_data[i])

FindIngredientsMeta(product) ==
    LET i == CHOOSE k \in 1..Len(product.meta_data) :
                 /\ IsIngredientsMeta(product.meta_data[k])
                 /\ \A j \in 1..(k - 1) : ~IsIngredientsMeta(product.meta_data[j])
    IN  product.meta_data[i]

\* product.description?.toLowerCase() || ''
DescriptionOf(product) ==
    IF "description" \in product.has THEN product.description ELSE ""

\* product.short_description || product.description || ''
ShortOrDescription(product) ==
    IF "short_description" \in product.has /\ product.short_description # ""
    THEN product.short_description
    ELSE DescriptionOf(product)

\* Array.from(ingredientSet) of calculateMatchScore: from the structured
\* ingredient field when it has a truthy value, else from the description.
IngredientsList(product) ==
    IF HasIngredientsMeta(product) /\ Truthy(FindIngredientsMeta(product).value)
    THEN LET value == FindIngredientsMeta(product).value
             rawIngredients == IF value.t = "string" THEN value.s ELSE join(value.a, ", ")
         IN  preprocessIngredients(rawIngredients)
    ELSE preprocessIngredients(toLowerCase(DescriptionOf(product)))

(***************************************************************************)
(* Scoring Engine                                                          *)
(***************************************************************************)

maxScore == 100

\* The time to live written in seconds
CACHE_TTL_Seconds == 5 * 60

\* The products kept for as long as the scores only
PRODUCT_CACHE_TTL_AsScores == 5 * 60 * 1000

\* Date.now() counts milliseconds
CACHE_TTL == 5 * 60 * 1000
PRODUCT_CACHE_TTL == 10 * 60 * 1000

weights ==
    [ beneficial |-> 12, avoid |-> -25, conditionMatch |-> 15,
      nameMatch |-> 8, concentration |-> 5 ]

\* The first-five test done with the Matcher's whole-word rule
InFirstFiveWholeWord(ingredientsList, ingredient) ==
    \E i \in 1..Len(ingredientsList) :
        /\ i <= 5
        /\ \/ ingredientsList[i] = normalizeIngredient(ingredient)
           \/ RegexWordTest(ingredientsList[i], normalizeIngredient(ingredient))

\* ingredientsList.slice(0, 5).some(ing => ing.includes(normalizeIngredient(ingredient)))
InFirstFive(ingredientsList, ingredient) ==
    \E i \in 1..Len(ingredientsList) :
        i <= 5 /\ includes(ingredientsList[i], normalizeIngredient(ingredient))

\* conditionData.beneficial.forEach: every list position whose ingredient the
\* Matcher finds adds weights.beneficial, and weights.concentration on top
\* when the ingredient is in the first five.
BeneficialPoints(ingredientsList, beneficial) ==
    LET found == {i \in 1..Len(beneficial) : hasIngredient(ingredientsList, beneficial[i])}
        early == {i \in found : InFirstFive(ingredientsList, beneficial[i])}
    IN  weights.beneficial * Cardinality(found) + weights.concentration * Cardinality(early)

\* conditionData.avoid.forEach
AvoidPoints(ingredientsList, avoid) ==
    weights.avoid
        * Cardinality({i \in 1..Len(avoid) : hasIngredient(ingredientsList, avoid[i])})

\* text.includes(condition.replace('-', ' ')) || text.includes(condition)
MentionsCondition(text, condition) ==
    \/ includes(text, replaceFirst(condition, "-", " "))
    \/ includes(text, condition)

\* One pass of the userConditions.forEach body; a condition without a
\* Knowledge Base entry contributes nothing.
ConditionPoints(product, ingredientsList, condition) ==
    IF condition \notin DOMAIN INGREDIENT_DATABASE THEN 0
    ELSE LET conditionData == INGREDIENT_DATABASE[condition]
             productNameLower == toLowerCase(product.name)
             productDescLower == toLowerCase(ShortOrDescription(product))
         IN  BeneficialPoints(ingredientsList, conditionData.beneficial)
             + AvoidPoints(ingredientsList, conditionData.avoid)
             + (IF MentionsCondition(productNameLower, condition)
                THEN weights.nameMatch ELSE 0)
             + (IF MentionsCondition(productDescLower, condition)
                THEN weights.conditionMatch ELSE 0)

Max(a, b) == IF a >= b THEN a ELSE b
Min(a, b) == IF a <= b THEN a ELSE b

\* The score left as it is, without the clamp
ClampTenthsNone(tenths) == tenths

\* Math.max(0, Math.min(maxScore, score)), in tenths
ClampTenths(tenths) == Max(0, Min(10 * maxScore, tenths))

\* Math.round of a non-negative number given in tenths
RoundTenths(tenths) == (tenths + 5) \div 10

\* The TypeErrors of calculateMatchScore: ingredientsMeta.value.join(', ') for
\* a truthy value that is neither a string nor an array (line 757), and
\* product.name.toLowerCase() when the product has no name and some condition
\* of the list reaches that line (line 805).
ScoringThrows(product, conditions) ==
    \/ /\ HasIngredientsMeta(product)
       /\ FindIngredientsMeta(product).value.t = "object"
    \/ /\ "name" \notin product.has
       /\ \E i \in 1..Len(conditions) : conditions[i] \in DOMAIN INGREDIENT_DATABASE

(***************************************************************************)
(* The product objects the store can return. A catalog, a cached           *)
(* collection and a response refer to a product object by its position in  *)
(* ProductObjects, as the JavaScript arrays hold references to objects.    *)
(***************************************************************************)

AllProps == {"name", "description", "short_description", "meta_data"}

\* A product with a string-valued ingredients field
MakeProduct(id, name, price, ingredients, description, short_description) ==
    [ id |-> id, name |-> name, price |-> price, description |-> description,
      short_description |-> short_description,
      meta_data |-> << [key |-> "_brand", value |-> StrValue("derma")],
                       [key |-> "ingredients", value |-> StrValue(ingredients)] >>,
      has |-> AllProps ]

\* A product whose ingredients field is an array of strings
MakeArrayProduct(id, name, price, ingredients, description, short_description) ==
    [ id |-> id, name |-> name, price |-> price, description |-> description,
      short_description |-> short_description,
      meta_data |-> << [key |-> "_ingredients", value |-> ArrValue(ingredients)] >>,
      has |-> AllProps ]

\* A product without structured ingredient data
MakePlainProduct(id, name, price, description, short_description) ==
    [ id |-> id, name |-> name, price |-> price, description |-> description,
      short_description |-> short_description, meta_data |-> <<>>,
      has |-> AllProps ]

ProductObjects == <<
    \* 1..16: the catalog as first published
    MakeProduct(1, "Acne Clear Gel", "500", "Salicylic Acid, Niacinamide, Zinc", "", ""),
    MakeProduct(2, "Daily Cleanser", "300", "Salicylic Acid, Zinc, Aqua", "", ""),
    MakeProduct(3, "Clarifying Serum", "1000", "Niacinamide, Zinc, Sulfur, Aqua", "", ""),
    MakeProduct(4, "Rich Cream", "1001", "Salicylic Acid, Niacinamide, Zinc, Sulfur", "", ""),
    MakeProduct(5, "Balancing Toner", "250.50", "Niacinamide (Vitamin B3), Zinc PCA, Tea Tree", "", ""),
    MakeProduct(6, "Spot Treatment", "999.99", "Salicylic Acid, Niacinamide, Zinc, Sulfur", "", ""),
    MakeProduct(7, "Pore Serum", "450", "Zinc, Sulfur, Tocopherol", "", ""),
    MakeProduct(8, "Anti-Acne Wash", "120", "Salicylic Acid; Niacinamide; Zinc", "", ""),
    MakeProduct(9, "Coconut Balm", "200", "Coconut Oil, Cocoa Butter, Zinc", "", ""),
    MakeProduct(10, "Clear Lotion", "640", "Adenosine, Tocopherol, Sulfur", "", ""),
    MakeProduct(11, "Night Repair", "880", "Salicylic Acid, Niacinamide, Tea Tree, Zinc", "", ""),
    MakeProduct(12, "Matte Fluid", "720", "Niacinamide, Zinc, Glycolic Acid", "", ""),
    MakeProduct(13, "Gentle Gel", "310", "Tea Tree, Sulfur, Zinc", "", ""),
    MakeProduct(14, "Blemish Mask", "560", "Salicylic Acid, Zinc", "For acne prone skin", ""),
    MakeProduct(15, "Purifying Essence", "410", "Sulfur, Zinc, Niacinamide", "", ""),
    MakeProduct(16, "Oil Control Mist", "150", "Zinc, Niacinamide, Adenosine", "", ""),
    \* 17..19: objects of the catalog after the store was updated
    MakeProduct(1, "Acne Clear Gel", "500", "Coconut Oil, Aqua, Zinc", "", ""),
    MakeProduct(2, "Daily Cleanser", "300", "Salicylic Acid, Zinc, Niacinamide, Sulfur", "", ""),
    MakeProduct(3, "Clarifying Serum", "2500", "Niacinamide, Zinc, Sulfur, Aqua", "", ""),
    \* 20: a second object with id 3 in the first catalog's response
    MakeProduct(3, "Clarifying Serum", "950", "Niacinamide, Zinc", "", ""),
    \* 21..28: further shapes of product data
    MakeProduct(21, "Niacinamide Serum", "1200",
        "Niacinamide, Salicylic Acid, Zinc, Glycerin, Dimethicone, Aqua, Panthenol, Betaine, Xanthan Gum, Carbomer, Citric Acid",
        "", ""),
    MakeProduct(22, "Mineral Shield", "2600",
        "Zincate Complex, Aqua, Glycerin, Betaine, Panthenol, Zinc", "", ""),
    MakeProduct(23, "Dark Spots Corrector", "5000", "Vitamin C, Niacinamide, Kojic Acid",
        "Fades dark-spots and acne marks", "Brightening care"),
    MakePlainProduct(24, "Herbal Wash", "90",
        "Salicylic Acid, Zinc\nTea Tree; made for ACNE and oily skin", ""),
    MakeArrayProduct(25, "Barrier Cream", "3100",
        << "Dimethicone", "Stearyl Alcohol", "Synthetic Wax", "Ceteareth-6" >>, "", ""),
    MakeArrayProduct(26, "Empty List", "10", <<>>, "Zinc", "for oily skin"),
    MakeProduct(27, "Oily Skin Acne Kit", "7000",
        "Salicylic Acid, Niacinamide, Zinc, Sulfur, Tea Tree, Glycolic Acid, Adenosine, Tocopherol, Clay, Charcoal, Silica, Witch Hazel",
        "acne and oily skin", ""),
    MakeProduct(28, "Denat Tonic", "", "Alcohol Denat., Aqua", "", ""),
    \* 29..35: products priced at the limits of the budget tiers and one above
    MakeProduct(29, "Free Sample", "0", "Zinc, Niacinamide, Salicylic Acid", "", ""),
    MakeProduct(30, "Mid Serum", "2500.00", "Zinc, Niacinamide, Salicylic Acid", "", ""),
    MakeProduct(31, "Mid Plus Serum", "2501", "Zinc, Niacinamide, Salicylic Acid", "", ""),
    MakeProduct(32, "High Serum", "5000", "Zinc, Niacinamide, Salicylic Acid", "", ""),
    MakeProduct(33, "High Plus Serum", "5001", "Zinc, Niacinamide, Salicylic Acid", "", ""),
    MakeProduct(34, "Luxury Serum", "999999", "Zinc, Niacinamide, Salicylic Acid", "", ""),
    MakeProduct(35, "Luxury Plus Serum", "1000000", "Zinc, Niacinamide, Salicylic Acid", "", ""),
    \* 36..39: product data with parts missing or of another shape
    [ MakeProduct(36, "", "100", "Zinc, Niacinamide", "", "")
        EXCEPT !.has = AllProps \ {"name"} ],
    [ MakePlainProduct(37, "Bare Item", "100", "", "")
        EXCEPT !.has = {"name"} ],
    [ id |-> 38, name |-> "Odd Meta", price |-> "100", description |-> "Zinc",
      short_description |-> "",
      meta_data |-> << [key |-> "ingredients", value |-> ObjValue] >>,
      has |-> AllProps ],
    [ MakePlainProduct(39, "Plain Text Acne Item", "100", "Salicylic Acid, Zinc", "")
        EXCEPT !.has = {"name", "description"} ] >>

Handles == 1..Len(ProductObjects)

(***************************************************************************)
(* The condition lists of the model                                        *)
(***************************************************************************)

\* The longest condition list the scoring harness passes in
MaxConds == 2

\* The condition identifiers the harness draws from; "glow" has no
\* Knowledge Base entry.
HarnessConditions == {"acne", "oily", "dark-spots", "glow"}

RECURSIVE ListsUpTo(_, _)
ListsUpTo(S, n) ==
    IF n = 0 THEN {<<>>}
    ELSE LET shorter == ListsUpTo(S, n - 1)
         IN  shorter \cup {Append(l, c) : l \in {m \in shorter : Len(m) = n - 1}, c \in S}

HarnessLists == ListsUpTo(HarnessConditions, MaxConds)

\* What the requests send and what the vision model answers
RequestConditions == { <<"acne">>, <<>> }
RequestBudgets == { "low" }
DetectedConditions == { <<>>, <<"oily">> }

\* What the call of the vision model in analyzeSkinImage comes to: it raises
\* an error, or it answers with a list of conditions.
DetectionFailed == [failed |-> TRUE, detectedConditions |-> <<>>]
Detected(list) == [failed |-> FALSE, detectedConditions |-> list]

\* What the call in getLifestyleSuggestions comes to: it raises an error, or
\* it answers with lines of text (here without bullets or numbers).
SuggestionsFailed == [failed |-> TRUE, lines |-> <<>>]
Suggested(lines) == [failed |-> FALSE, lines |-> lines]

SkinReplies == {Detected(d) : d \in DetectedConditions}
SuggestionReplies == { Suggested(<<"Drink more water", "ok">>) }

\* The wider inputs of SpecInputs: a condition and budgets outside the
\* enumerations, every budget tier, a failing vision model, a vision model
\* that repeats a condition or names a selected one, failing suggestions.
InputConditions == { <<"acne">>, <<"glow">> }
InputBudgets == { "low", "mid", "high", "luxury", "LOW", "vip" }
InputSkinReplies == { DetectionFailed, Detected(<<"acne", "oily", "oily">>) }
\* Answers of the vision model that name what its prompt lists (line 452:
\* '... dryness, oiliness, sensitivity'), a condition in capitals, and a
\* condition identifier of the service
DetectorReplies ==
    { Detected(<<"dryness">>), Detected(<<"Oily">>), Detected(<<"oily">>) }

InputSuggestionReplies == { SuggestionsFailed, Suggested(<<"Drink more water", "ok">>) }

\* array.includes(value)
Contains(array, value) == \E i \in 1..Len(array) : array[i] = value

\* conditions.push(...aiConditions.filter(c => !conditions.includes(c)))
MergeConditions(conditions, aiConditions) ==
    conditions \o SelectSeq(aiConditions, LAMBDA c : ~Contains(conditions, c))

\* Every conditions array calculateMatchScore is called with
KnownLists ==
    LET given == HarnessLists
                 \cup {MergeConditions(c, d) : c \in RequestConditions, d \in DetectedConditions}
                 \cup {MergeConditions(c, a.detectedConditions) :
                           c \in InputConditions, a \in InputSkinReplies}
                 \cup {MergeConditions(c, a.detectedConditions) :
                           c \in RequestConditions, a \in DetectorReplies}
    IN  given \cup {sort(c) : c \in given}

ProductIds == {ProductObjects[h].id : h \in Handles}

\* conditions.sort() and generateScoreCacheKey(productId, conditions) for the
\* arrays and product ids of the model, evaluated once
SortedOf == [conditions \in KnownLists |-> sort(conditions)]

ScoreCacheKeyOf ==
    [productId \in ProductIds, conditions \in KnownLists |->
        generateScoreCacheKey(productId, conditions)]

(***************************************************************************)
(* Scoring Engine, continued                                               *)
(***************************************************************************)

\* The Knowledge Base conditions the model's calls name
UsedConditions == HarnessConditions \cap DOMAIN INGREDIENT_DATABASE

\* What one pass of the forEach body adds for each product object and each
\* of these conditions, evaluated once.
ConditionPointsOf ==
    [h \in Handles, condition \in UsedConditions |->
        ConditionPoints(ProductObjects[h], IngredientsList(ProductObjects[h]), condition)]

IngredientCountOf == [h \in Handles |-> Len(IngredientsList(ProductObjects[h]))]

\* userConditions.forEach(...): the sum of the passes
RECURSIVE SumConditions(_, _)
SumConditions(h, conditions) ==
    IF Len(conditions) = 0 THEN 0
    ELSE (IF conditions[1] \in UsedConditions
          THEN ConditionPointsOf[h, conditions[1]]
          ELSE ConditionPoints(ProductObjects[h], IngredientsList(ProductObjects[h]),
                               conditions[1]))
         + SumConditions(h, Tail(conditions))

\* The score without the quality multiplier
NormalizedTenthsPlain(h, conditions) == ClampTenths(10 * SumConditions(h, conditions))

\* The score a miss leaves in score after the multiplier and the clamp, in
\* tenths of a point: score *= 1.1 is 11 * score / 10, and the clamp bounds
\* commute with the scaling by ten.
NormalizedTenths(h, conditions) ==
    LET score == SumConditions(h, conditions)
        multiplied == IF IngredientCountOf[h] > 10 THEN 11 * score ELSE 10 * score
    IN  ClampTenths(multiplied)

\* The score a miss returns: Math.round(score)
ComputeScore(h, conditions) == RoundTenths(NormalizedTenths(h, conditions))

\* A miss that caches the running score before the multiplier and the clamp
ScoreEntryUnclamped(h, conditions, t) ==
    [ score |-> SumConditions(h, conditions), timestamp |-> t, from |-> h ]

\* The entry a miss stores: { score: Math.round(score), timestamp: Date.now() };
\* from records the product object the score was computed from.
ScoreEntry(h, conditions, t) ==
    [ score |-> RoundTenths(NormalizedTenths(h, conditions)), timestamp |-> t, from |-> h ]

\* A read that trusts every entry it finds
IsLiveAlways(entry, t, ttl) == TRUE

\* An entry trusted up to and including the age ttl
IsLiveInclusive(entry, t, ttl) == t - entry.timestamp <= ttl

\* A cache entry is trusted while Date.now() - timestamp < ttl
IsLive(entry, t, ttl) == t - entry.timestamp < ttl

\* A calculateMatchScore whose hit renews the timestamp of the entry
calculateMatchScoreSliding(h, userConditions, cache, t) ==
    LET product == ProductObjects[h]
        cacheKey == ScoreCacheKeyOf[product.id, userConditions]
        sorted == SortedOf[userConditions]
    IN  IF cacheKey \in DOMAIN cache /\ IsLive(cache[cacheKey], t, CACHE_TTL)
        THEN [ score |-> cache[cacheKey].score,
               cache |-> [cache EXCEPT ![cacheKey].timestamp = t],
               conditions |-> sorted, computed |-> FALSE, threw |-> FALSE,
               from |-> cache[cacheKey].from ]
        ELSE IF ScoringThrows(product, sorted)
        THEN [ score |-> 0, cache |-> cache,
               conditions |-> sorted, computed |-> TRUE, threw |-> TRUE, from |-> h ]
        ELSE [ score |-> ComputeScore(h, sorted),
               cache |-> [k \in DOMAIN cache \cup {cacheKey} |->
                             IF k = cacheKey THEN ScoreEntry(h, sorted, t) ELSE cache[k]],
               conditions |-> sorted, computed |-> TRUE, threw |-> FALSE, from |-> h ]

\* calculateMatchScore(product, userConditions) at time t with the Score
\* Cache cache. generateScoreCacheKey sorts userConditions in place, so the
\* caller's array is sorted afterwards. Yields the returned score, the cache
\* and the array afterwards, whether the miss path ran (computed), whether a
\* TypeError was raised (threw, with no score), and the product object the
\* returned score was computed from.
calculateMatchScore(h, userConditions, cache, t) ==
    LET product == ProductObjects[h]
        cacheKey == ScoreCacheKeyOf[product.id, userConditions]
        sorted == SortedOf[userConditions]
    IN  IF cacheKey \in DOMAIN cache /\ IsLive(cache[cacheKey], t, CACHE_TTL)
        THEN [ score |-> cache[cacheKey].score, cache |-> cache,
               conditions |-> sorted, computed |-> FALSE, threw |-> FALSE,
               from |-> cache[cacheKey].from ]
        ELSE IF ScoringThrows(product, sorted)
        THEN [ score |-> 0, cache |-> cache,
               conditions |-> sorted, computed |-> TRUE, threw |-> TRUE, from |-> h ]
        ELSE [ score |-> ComputeScore(h, sorted),
               cache |-> [k \in DOMAIN cache \cup {cacheKey} |->
                             IF k = cacheKey THEN ScoreEntry(h, sorted, t) ELSE cache[k]],
               conditions |-> sorted, computed |-> TRUE, threw |-> FALSE, from |-> h ]

(***************************************************************************)
(* Bounds of the model                                                     *)
(***************************************************************************)

\* The clock advances in steps of TickMs milliseconds, MaxTicks times at most.
TickMs == 300000
MaxTicks == 2
\* The clock of the scoring harness advances in steps of StepMs milliseconds.
StepMs == 150000
\* The /api/analyze requests of one behaviour, and how many of them wait for
\* the store at once
MaxRequests == 3
MaxInFlight == 2
\* The requests of one behaviour of SpecInputs
MaxInputs == 2
\* The longest string the text harness builds from its alphabet
MaxLen == 3

MaxTime == MaxTicks * TickMs

(***************************************************************************)
(* State                                                                   *)
(***************************************************************************)

VARIABLES
    now,            \* Date.now()
    scoreCache,     \* Map: score cache key -> [score, timestamp]; from is the
                    \* product object the score was computed from (history)
    productCache,   \* Map: product cache key -> [data, timestamp]; ref names
                    \* the array object held in data by the request that made it
    categoryCache,  \* Map: 'all_categories' -> [data, timestamp]
    nextSweep,      \* when the setInterval timer of cleanExpiredCache is due
    store,          \* the version of the catalog the external store serves
    reqs,           \* the /api/analyze requests and where each one stands
    test            \* the calls of the scoring harness (SpecScore)

vars == <<now, scoreCache, productCache, categoryCache, nextSweep, store, reqs, test>>

EmptyMap == [k \in {} |-> 0]

\* A set that stores nothing
MapSetDropped(map, key, value) == map

\* map.set(key, value)
MapSet(map, key, value) ==
    [k \in DOMAIN map \cup {key} |-> IF k = key THEN value ELSE map[k]]

\* The map restricted to the keys in keep
MapKeep(map, keep) == [k \in keep |-> map[k]]

(***************************************************************************)
(* Expiry Sweeper                                                          *)
(***************************************************************************)

SWEEP_INTERVAL == 10 * 60 * 1000

\* A sweep that leaves the score cache out
SweptScoreCacheNone(cache, t) == cache

\* The three loops of cleanExpiredCache at time t
SweptScoreCache(cache, t) ==
    MapKeep(cache, {k \in DOMAIN cache : ~(t - cache[k].timestamp >= CACHE_TTL)})

\* A sweep of the catalog cache with the time-to-live of the scores
SweptProductCacheEarly(cache, t) ==
    MapKeep(cache, {k \in DOMAIN cache : ~(t - cache[k].timestamp >= CACHE_TTL)})

SweptProductCache(cache, t) ==
    MapKeep(cache, {k \in DOMAIN cache : ~(t - cache[k].timestamp >= PRODUCT_CACHE_TTL)})

SweptCategoryCache(cache, t) ==
    MapKeep(cache, {k \in DOMAIN cache : ~(t - cache[k].timestamp >= PRODUCT_CACHE_TTL)})

\* The timer fires no earlier than it is due and is then due one interval on.
cleanExpiredCache ==
    /\ now >= nextSweep
    /\ scoreCache' = SweptScoreCache(scoreCache, now)
    /\ productCache' = SweptProductCache(productCache, now)
    /\ categoryCache' = SweptCategoryCache(categoryCache, now)
    /\ nextSweep' = now + SWEEP_INTERVAL
    /\ UNCHANGED <<now, store, reqs, test>>

\* Time passes, a tick at a time. A tick is longer than the store takes to
\* answer, so no request waits for the store across a tick.
Tick ==
    /\ now + TickMs <= MaxTime
    /\ \A r \in DOMAIN reqs : reqs[r].pc \notin {"categories", "products"}
    /\ now' = now + TickMs
    /\ UNCHANGED <<scoreCache, productCache, categoryCache, nextSweep, store, reqs, test>>

(***************************************************************************)
(* Input validation                                                        *)
(***************************************************************************)

BUDGET_RANGES ==
    [ low |-> [min |-> 0, max |-> 1000],
      mid |-> [min |-> 0, max |-> 2500],
      high |-> [min |-> 2500, max |-> 5000],
      luxury |-> [min |-> 5000, max |-> 999999] ]

VALID_CONDITIONS ==
    << "acne", "dark-spots", "wrinkles", "redness", "large-pores",
       "uneven-texture", "dry", "oily", "sensitive" >>

\* validateConditions(conditions).valid for an array of strings
validateConditions(conditions) ==
    /\ Len(conditions) # 0
    /\ Len(conditions) <= 5
    /\ \A i \in 1..Len(conditions) : Contains(VALID_CONDITIONS, conditions[i])

\* validateBudget(budget).valid for a string; '' is the falsy budget
validateBudget(budget) ==
    \/ budget = ""
    \/ toLowerCase(budget) \in DOMAIN BUDGET_RANGES

(***************************************************************************)
(* The external store                                                      *)
(***************************************************************************)

\* What GET products returns, version by version of the store's catalog: the
\* first answer lists product 3 twice, the second has new objects for the
\* products 1, 2 and 3.
Catalogs ==
    << <<1, 2, 3, 4, 5, 6, 7, 8, 9, 10, 11, 12, 13, 14, 15, 16, 20,
         29, 30, 31, 32, 33, 34, 35>>,
       <<17, 18, 19, 4, 5, 6, 7, 8, 9, 10, 11, 12, 13, 14, 15, 16,
         29, 30, 31, 32, 33, 34, 35>> >>

\* The store replaces its catalog.
StoreUpdate ==
    /\ store < Len(Catalogs)
    /\ store' = store + 1
    /\ UNCHANGED <<now, scoreCache, productCache, categoryCache, nextSweep, reqs, test>>

(***************************************************************************)
(* Recommendation Orchestrator: the synchronous parts                      *)
(***************************************************************************)

\* A removal of duplicates that keeps the object of the first occurrence
DedupeFirst(allProducts) ==
    LET n == Len(allProducts)
        idOf(i) == ProductObjects[allProducts[i]].id
        firsts == {i \in 1..n : \A j \in 1..(i - 1) : idOf(j) # idOf(i)}
    IN  [k \in 1..Cardinality(firsts) |-> allProducts[Kth(firsts, k)]]

\* Array.from(new Map(allProducts.map(p => [p.id, p])).values()): one object
\* per id, at the position of the id's first occurrence, the object of its
\* last occurrence
Dedupe(allProducts) ==
    LET n == Len(allProducts)
        idOf(i) == ProductObjects[allProducts[i]].id
        firsts == {i \in 1..n : \A j \in 1..(i - 1) : idOf(j) # idOf(i)}
        last(i) == CHOOSE j \in i..n :
                       /\ idOf(j) = idOf(i)
                       /\ \A k \in (j + 1)..n : idOf(k) # idOf(i)
    IN  [k \in 1..Cardinality(firsts) |-> allProducts[last(Kth(firsts, k))]]

\* The digits s starts with from position lo on
DigitRun(s, lo) ==
    LET stops == {i \in lo..Len(s) : IndexIn(DigitChars, CharAt(s, i)) = 0}
    IN  IF stops = {} THEN Len(s) - lo + 1
        ELSE (CHOOSE i \in stops : \A j \in stops : i <= j) - lo

\* The number a run of digits denotes
DigitsValue(s) ==
    LET v[i \in 0..Len(s)] ==
            IF i = 0 THEN 0 ELSE 10 * v[i - 1] + IndexIn(DigitChars, CharAt(s, i)) - 1
    IN  v[Len(s)]

\* parseFloat(text) for an unsigned decimal numeral followed by anything: NaN
\* (nan) when no number starts the text, else the integer part (whole) and
\* whether the fraction is above zero (fraction)
parseFloat(text) ==
    LET wholeLen == DigitRun(text, 1)
        hasPoint == wholeLen < Len(text) /\ CharAt(text, wholeLen + 1) = "."
        fracLen == IF hasPoint THEN DigitRun(text, wholeLen + 2) ELSE 0
        frac == SubSeq(text, wholeLen + 2, wholeLen + 1 + fracLen)
    IN  [ nan |-> wholeLen = 0 /\ fracLen = 0,
          whole |-> DigitsValue(SubSeq(text, 1, wholeLen)),
          fraction |-> \E i \in 1..fracLen : CharAt(frac, i) # "0" ]

\* parseFloat(product.price) of each product object, evaluated once
PriceOf == [h \in Handles |-> parseFloat(ProductObjects[h].price)]

\* The filter with the upper limit left out: price < budgetRange.max
InBudgetExclusive(h, budgetRange) ==
    LET price == PriceOf[h]
    IN  /\ ~price.nan
        /\ price.whole >= budgetRange.min
        /\ price.whole < budgetRange.max

\* price >= budgetRange.min && price <= budgetRange.max, for integer limits
InBudget(h, budgetRange) ==
    LET price == PriceOf[h]
    IN  /\ ~price.nan
        /\ price.whole >= budgetRange.min
        /\ \/ price.whole < budgetRange.max
           \/ price.whole = budgetRange.max /\ ~price.fraction

\* One pass of the map callback (lines 1017-1044) for the product object h:
\* acc is what the passes before left, the scores so far, the Score Cache and
\* the conditions array. computed says that the score was not served from
\* the Score Cache (history).
ScoreOne(acc, h, t) ==
    CHOOSE next \in
        { [ scores |-> IF res.threw THEN acc.scores
                       ELSE Append(acc.scores,
                                   [h |-> h, matchScore |-> res.score, from |-> res.from,
                                    computed |-> res.computed]),
            cache |-> res.cache, conditions |-> res.conditions, threw |-> res.threw ] :
          res \in {calculateMatchScore(h, acc.conditions, acc.cache, t)} } : TRUE

RECURSIVE ScoreFrom(_, _, _, _)
\* The passes from position i on; a TypeError ends the map.
ScoreFrom(productsInBudget, i, acc, t) ==
    IF i > Len(productsInBudget) \/ acc.threw THEN acc
    ELSE CHOOSE result \in
             { ScoreFrom(productsInBudget, i + 1, next, t) :
               next \in {ScoreOne(acc, productsInBudget[i], t)} } : TRUE

\* productsInBudget.map(...): the products scored in order, each call with the
\* cache and the conditions array as the call before left them.
ScoreProducts(productsInBudget, conditions, cache, t) ==
    ScoreFrom(productsInBudget, 1,
              [scores |-> <<>>, cache |-> cache, conditions |-> conditions, threw |-> FALSE],
              t)

MIN_MATCH_SCORE == 40
MAX_PRODUCTS == 12

\* productsWithScores.filter(product => product.matchScore >= 40)
FilterByScore(productsWithScores) ==
    SelectSeq(productsWithScores, LAMBDA p : p.matchScore >= MIN_MATCH_SCORE)

\* The sort with the comparator turned round: (a, b) => a.matchScore - b.matchScore
SortByScoreAscending(array) ==
    LET n == Len(array)
        before(i, j) ==
            \/ array[i].matchScore < array[j].matchScore
            \/ array[i].matchScore = array[j].matchScore /\ i < j
        rank == [i \in 1..n |-> 1 + Cardinality({j \in 1..n : before(j, i)})]
    IN  [k \in 1..n |-> array[CHOOSE i \in 1..n : rank[i] = k]]

\* array.sort((a, b) => b.matchScore - a.matchScore): a stable sort
SortByScore(array) ==
    LET n == Len(array)
        before(i, j) ==
            \/ array[i].matchScore > array[j].matchScore
            \/ array[i].matchScore = array[j].matchScore /\ i < j
        rank == [i \in 1..n |-> 1 + Cardinality({j \in 1..n : before(j, i)})]
    IN  [k \in 1..n |-> array[CHOOSE i \in 1..n : rank[i] = k]]

\* array.slice(0, 12)
Slice(array) == SubSeq(array, 1, Min(Len(array), MAX_PRODUCTS))

\* A filter that removes from the array it is called on
ReceiverSpliced(array, result) == result

\* allProducts.filter(...) of line 1005 builds a new array, and the map, the
\* second filter, the sort and the slice after it work on that array and its
\* successors, each product copied by { ...product } on the way: the array
\* the handler filtered, after the handler's lines 1005-1063
Receiver(array, result) == array

\* Lines 1003-1063: budget filter, scoring, threshold, sort and slice of
\* allProducts at time t; allProducts is the array afterwards. BUDGET_RANGES[budget] is undefined for a budget that
\* is not one of its keys, and reading .min of it raises a TypeError.
Rank(allProducts, conditions, budget, cache, t) ==
    IF budget \notin DOMAIN BUDGET_RANGES
    THEN [ threw |-> TRUE, cache |-> cache, conditions |-> conditions,
           scores |-> <<>>, topProducts |-> <<>>, allProducts |-> allProducts ]
    ELSE LET productsInBudget ==
                 SelectSeq(allProducts, LAMBDA h : InBudget(h, BUDGET_RANGES[budget]))
         IN  CHOOSE ranked \in
                 { [ threw |-> scored.threw, cache |-> scored.cache,
                     conditions |-> scored.conditions, scores |-> scored.scores,
                     allProducts |-> Receiver(allProducts, productsInBudget),
                     topProducts |-> IF scored.threw THEN <<>>
                                     ELSE Slice(SortByScore(FilterByScore(scored.scores))) ] :
                   scored \in {ScoreProducts(productsInBudget, conditions, cache, t)} } : TRUE

(***************************************************************************)
(* Recommendation Orchestrator: POST /api/analyze                          *)
(*                                                                         *)
(* The handler runs on one thread and gives way to other requests at its   *)
(* awaits only. Before line 949 it reads and writes no cache, so the       *)
(* awaits of the face check, the image optimisation and the skin analysis  *)
(* are taken together with the code up to the first products-cache read;   *)
(* what they answer is an input of that step. After the ranking the        *)
(* handler touches no cache either, and the product list of the response   *)
(* is the ranking's, so the request is complete with the ranking.          *)
(***************************************************************************)

\* given is the conditions array as sent, conditions the array as the handler
\* has it; face is what validateFaceSelfie answered, if it was called;
\* detected is skinAnalysis.detectedConditions;
\* adviceFailed says that the call for the suggestions raised an error
\* (history); storedCategories says that the request, not yet at the ranking, has
\* written the category cache (history); oldest is the version the store's
\* catalog had when the request sent GET products, while the call is out;
\* ref names the array object of allProducts; fetched says the
\* request issued GET products; checkedAt and resolvedAt are the times of
\* the products-cache read and of the ranking; scores is productsWithScores
\* (from: the product object each score was computed from) and products the
\* product list of the response.
IdleRequest ==
    [ pc |-> "idle", status |-> 0, error |-> "", given |-> <<>>, conditions |-> <<>>,
      budget |-> "", face |-> "unchecked", detected |-> <<>>, aiError |-> FALSE,
      allProducts |-> <<>>,
      ref |-> 0, storedCategories |-> FALSE, oldest |-> 0,
      fetched |-> FALSE, checkedAt |-> 0, resolvedAt |-> 0, scores |-> <<>>,
      products |-> <<>>, suggestions |-> <<>>, adviceFailed |-> FALSE ]

\* The request as sent: the body's conditions and budget
Sent(conditions, budget) == [IdleRequest EXCEPT !.given = conditions, !.budget = budget]

\* faceValidation of line 910, awaited once the body has passed validation
Checked(sent, isValid) ==
    IF validateConditions(sent.given) /\ validateBudget(sent.budget)
    THEN [sent EXCEPT !.face = IF isValid THEN "valid" ELSE "invalid"]
    ELSE sent

\* The returns without the one of the face check
RejectsInputOnly(conditions, budget, isValid) ==
    ~validateConditions(conditions) \/ ~validateBudget(budget)

\* The early returns of lines 873-918
Rejects(conditions, budget, isValid) ==
    ~validateConditions(conditions) \/ ~validateBudget(budget) \/ ~isValid

\* A request answered by res.status(status).json({ error }) before the
\* ranking: what it sent, the status and the message
Answered(sent, status, error) ==
    [sent EXCEPT !.pc = "done", !.status = status, !.error = error]

\* The message of the first check of lines 873-918 that fails (the start of
\* it, for the messages that go on to list identifiers)
InputError(conditions, budget) ==
    IF Len(conditions) = 0 THEN "Please select at least one skin condition"
    ELSE IF Len(conditions) > 5 THEN "Maximum 5 conditions allowed"
    ELSE IF ~validateConditions(conditions) THEN "Invalid condition(s)"
    ELSE IF ~validateBudget(budget) THEN "Invalid budget"
    ELSE "Invalid image"

FETCH_ERROR == "Failed to fetch products from WooCommerce"
ANALYSIS_ERROR == "Failed to analyze and fetch products"

\* An analysis that answers a failed call with a condition of its own
analyzeSkinImageGuess(reply) ==
    [ detectedConditions |-> IF reply.failed THEN <<"oily">> ELSE reply.detectedConditions,
      error |-> reply.failed ]

\* analyzeSkinImage: an error of the call is caught (line 583) and answered
\* with the fallback analysis, which has no detected conditions and an error
\* note.
analyzeSkinImage(reply) ==
    IF reply.failed
    THEN [detectedConditions |-> <<>>, error |-> TRUE]
    ELSE [detectedConditions |-> reply.detectedConditions, error |-> FALSE]

\* getLifestyleSuggestions: an error of the call is caught (line 631) and
\* answered with []; else the lines longer than 5 characters.
getLifestyleSuggestions(reply) ==
    IF reply.failed THEN <<>>
    ELSE SelectSeq(reply.lines, LAMBDA line : Len(line) > 5)

Requests == 1..MaxRequests

\* The catalog cache whose entries hold the array object ref, once the array
\* is array
WriteBack(cache, ref, array) ==
    [k \in DOMAIN cache |->
        IF cache[k].ref = ref THEN [cache[k] EXCEPT !.data = array] ELSE cache[k]]

\* Lines 1003-1136 for the request whose record is rec, with the catalog
\* cache as the lines before left it: rank, ask for the suggestions and
\* answer 200, or 500 from the outer catch. allProducts is the array object
\* the cache entry holds, so what the lines do to it shows in the entry.
Complete(r, rec, advice, cache) ==
    \E ranked \in {Rank(rec.allProducts, rec.conditions, rec.budget, scoreCache, now)} :
        /\ scoreCache' = ranked.cache
        /\ productCache' = WriteBack(cache, rec.ref, ranked.allProducts)
        /\ reqs' = [reqs EXCEPT ![r] =
                       [rec EXCEPT !.pc = "done",
                                   !.allProducts = ranked.allProducts,
                                   !.status = IF ranked.threw THEN 500 ELSE 200,
                                   !.error = IF ranked.threw THEN ANALYSIS_ERROR ELSE "",
                                   !.conditions = ranked.conditions,
                                   !.resolvedAt = now,
                                   !.storedCategories = FALSE,
                                   !.oldest = 0,
                                   !.scores = ranked.scores,
                                   !.products = ranked.topProducts,
                                   !.suggestions = IF ranked.threw THEN <<>>
                                                   ELSE getLifestyleSuggestions(advice),
                                   !.adviceFailed = ~ranked.threw /\ advice.failed]]

\* Lines 869-966: validation, face check, skin analysis, merge, and the read
\* of the products cache; on a hit the request goes on to the ranking.
Analyze(r, conditions, budget, isValid, reply, advice) ==
    /\ reqs[r].pc = "idle"
    /\ \A q \in 1..(r - 1) : reqs[q].pc # "idle"
    /\ Cardinality({q \in Requests : reqs[q].pc \in {"categories", "products"}}) < MaxInFlight
    /\ LET sent == Checked(Sent(conditions, budget), isValid)
           skinAnalysis == analyzeSkinImage(reply)
           productCacheKey == generateProductCacheKey(budget)
           rec == [sent EXCEPT !.conditions =
                                   MergeConditions(conditions, skinAnalysis.detectedConditions),
                               !.detected = skinAnalysis.detectedConditions,
                               !.aiError = skinAnalysis.error,
                               !.checkedAt = now]
       IN  IF Rejects(conditions, budget, isValid)
           THEN /\ reqs' = [reqs EXCEPT ![r] =
                                Answered(sent, 400, InputError(conditions, budget))]
                /\ UNCHANGED <<scoreCache, productCache>>
           ELSE IF /\ productCacheKey \in DOMAIN productCache
                   /\ IsLive(productCache[productCacheKey], now, PRODUCT_CACHE_TTL)
           THEN Complete(r, [rec EXCEPT !.allProducts = productCache[productCacheKey].data,
                                        !.ref = productCache[productCacheKey].ref],
                         advice, productCache)
           ELSE /\ reqs' = [reqs EXCEPT ![r] =
                    IF /\ "all_categories" \in DOMAIN categoryCache
                       /\ ~(now - categoryCache["all_categories"].timestamp >= PRODUCT_CACHE_TTL)
                    THEN [rec EXCEPT !.pc = "products", !.fetched = TRUE,
                                     !.oldest = store]
                    ELSE [rec EXCEPT !.pc = "categories"]]
                /\ UNCHANGED <<scoreCache, productCache>>
    /\ UNCHANGED <<now, categoryCache, nextSweep, store, test>>

\* Lines 967-972: GET products/categories answers, or fails (line 997).
CategoriesFetched(r, ok) ==
    /\ reqs[r].pc = "categories"
    /\ IF ok
       THEN /\ categoryCache' = MapSet(categoryCache, "all_categories",
                                       [data |-> store, timestamp |-> now])
            /\ reqs' = [reqs EXCEPT ![r].pc = "products", ![r].fetched = TRUE,
                                     ![r].storedCategories = TRUE, ![r].oldest = store]
       ELSE /\ reqs' = [reqs EXCEPT ![r] =
                            Answered(Sent(reqs[r].given, reqs[r].budget), 500, FETCH_ERROR)]
            /\ UNCHANGED categoryCache
    /\ UNCHANGED <<now, scoreCache, productCache, nextSweep, store, test>>

\* Lines 976-992 and on: GET products answers with the catalog the store had
\* at some time since the call was sent (version), the handler removes
\* duplicates, stores the array and ranks; or the call fails (line 997).
ProductsFetched(r, ok, advice, version) ==
    /\ reqs[r].pc = "products"
    /\ version \in reqs[r].oldest..store
    /\ IF ok
       THEN LET allProducts == Dedupe(Catalogs[version])
            IN  Complete(r, [reqs[r] EXCEPT !.allProducts = allProducts, !.ref = r],
                         advice,
                         MapSet(productCache, generateProductCacheKey(reqs[r].budget),
                                [ data |-> allProducts, timestamp |-> now,
                                  ref |-> r, version |-> version ]))
       ELSE /\ reqs' = [reqs EXCEPT ![r] =
                            Answered([Sent(reqs[r].given, reqs[r].budget)
                                         EXCEPT !.storedCategories = reqs[r].storedCategories],
                                     500, FETCH_ERROR)]
            /\ UNCHANGED <<scoreCache, productCache>>
    /\ UNCHANGED <<now, categoryCache, nextSweep, store, test>>

Init ==
    /\ now = 0
    /\ scoreCache = EmptyMap
    /\ productCache = EmptyMap
    /\ categoryCache = EmptyMap
    /\ nextSweep = SWEEP_INTERVAL
    /\ store = 1
    /\ reqs = [r \in Requests |-> IdleRequest]
    /\ test = [pc |-> "off", calls |-> <<>>]

Next ==
    \/ \E r \in Requests, conditions \in RequestConditions, budget \in RequestBudgets,
          isValid \in BOOLEAN, reply \in SkinReplies, advice \in SuggestionReplies :
           Analyze(r, conditions, budget, isValid, reply, advice)
    \/ \E r \in Requests, ok \in BOOLEAN : CategoriesFetched(r, ok)
    \/ \E r \in Requests, ok \in BOOLEAN, advice \in SuggestionReplies,
          version \in 1..Len(Catalogs) :
           ProductsFetched(r, ok, advice, version)
    \/ StoreUpdate
    \/ Tick
    \/ cleanExpiredCache

Spec == Init /\ [][Next]_vars

(***************************************************************************)
(* The same server with the wider inputs, for the requests 1..MaxInputs    *)
(* and one catalog of the store.                                           *)
(***************************************************************************)

InputRequests == 1..MaxInputs

NextInputs ==
    \/ \E r \in InputRequests, conditions \in InputConditions, budget \in InputBudgets,
          isValid \in BOOLEAN, reply \in InputSkinReplies,
          advice \in InputSuggestionReplies :
           Analyze(r, conditions, budget, isValid, reply, advice)
    \/ \E r \in InputRequests, ok \in BOOLEAN : CategoriesFetched(r, ok)
    \/ \E r \in InputRequests, ok \in BOOLEAN, advice \in InputSuggestionReplies,
          version \in 1..Len(Catalogs) :
           ProductsFetched(r, ok, advice, version)
    \/ Tick
    \/ cleanExpiredCache

SpecInputs == Init /\ [][NextInputs]_vars

(***************************************************************************)
(* The same server with the answers of the vision model of DetectorReplies *)
(***************************************************************************)

NextDetector ==
    \/ \E r \in InputRequests, conditions \in RequestConditions, budget \in RequestBudgets,
          isValid \in BOOLEAN, reply \in DetectorReplies, advice \in SuggestionReplies :
           Analyze(r, conditions, budget, isValid, reply, advice)
    \/ \E r \in InputRequests, ok \in BOOLEAN : CategoriesFetched(r, ok)
    \/ \E r \in InputRequests, ok \in BOOLEAN, advice \in SuggestionReplies,
          version \in 1..Len(Catalogs) :
           ProductsFetched(r, ok, advice, version)
    \/ Tick
    \/ cleanExpiredCache

SpecDetector == Init /\ [][NextDetector]_vars

(***************************************************************************)
(* The same server on a finer clock, for requests that agree in what they  *)
(* send: the reads fall 0, 2.5, 5, 7.5 and 10 minutes after a store.       *)
(***************************************************************************)

\* Time passes, StepMs at a time.
Pass ==
    /\ now + StepMs <= MaxTime
    /\ \A r \in DOMAIN reqs : reqs[r].pc \notin {"categories", "products"}
    /\ now' = now + StepMs
    /\ UNCHANGED <<scoreCache, productCache, categoryCache, nextSweep, store, reqs, test>>

NextAges ==
    \/ \E r \in Requests, budget \in RequestBudgets, isValid \in BOOLEAN,
          advice \in SuggestionReplies :
           Analyze(r, <<"acne">>, budget, isValid, Detected(<<>>), advice)
    \/ \E r \in Requests, ok \in BOOLEAN : CategoriesFetched(r, ok)
    \/ \E r \in Requests, ok \in BOOLEAN, advice \in SuggestionReplies,
          version \in 1..Len(Catalogs) :
           ProductsFetched(r, ok, advice, version)
    \/ Pass
    \/ cleanExpiredCache

SpecAges == Init /\ [][NextAges]_vars

\* The clock goes on, the timer of setInterval (line 132) fires when it is
\* due, and a call of the store ends, with an answer or with an error.
SpecAgesFair ==
    /\ SpecAges
    /\ WF_vars(Pass)
    /\ WF_vars(cleanExpiredCache)
    /\ WF_vars(\E r \in Requests, ok \in BOOLEAN : CategoriesFetched(r, ok))
    /\ WF_vars(\E r \in Requests, ok \in BOOLEAN, advice \in SuggestionReplies,
                  version \in 1..Len(Catalogs) : ProductsFetched(r, ok, advice, version))

(***************************************************************************)
(* The scoring harness: calculateMatchScore called twice, the second time  *)
(* for the same product id and the same condition members in any order,    *)
(* against any object of that product, any time after the first call.      *)
(***************************************************************************)

\* The lists that hold the members of list in some order
Reorderings(list) ==
    {[i \in 1..Len(list) |-> list[f[i]]] :
        f \in {g \in [1..Len(list) -> 1..Len(list)] :
                  \A i, j \in 1..Len(list) : i # j => g[i] # g[j]}}

\* One call of the harness: what went in, what came out
CallRecord(h, conditions, res, before) ==
    [ h |-> h, conditions |-> conditions, score |-> res.score,
      computed |-> res.computed, threw |-> res.threw, at |-> now,
      key |-> ScoreCacheKeyOf[ProductObjects[h].id, conditions],
      keysBefore |-> DOMAIN before ]

FirstCall(h, conditions) ==
    /\ test.pc = "first"
    /\ LET res == calculateMatchScore(h, conditions, scoreCache, now)
       IN  /\ scoreCache' = res.cache
           /\ test' = [pc |-> "second",
                       calls |-> <<CallRecord(h, conditions, res, scoreCache)>>]
    /\ UNCHANGED <<now, productCache, categoryCache, nextSweep, store, reqs>>

SecondCall(h, conditions) ==
    /\ test.pc = "second"
    /\ ProductObjects[h].id = ProductObjects[test.calls[1].h].id
    /\ conditions \in Reorderings(test.calls[1].conditions)
    /\ LET res == calculateMatchScore(h, conditions, scoreCache, now)
       IN  /\ scoreCache' = res.cache
           /\ test' = [pc |-> "done",
                       calls |-> Append(test.calls,
                                        CallRecord(h, conditions, res, scoreCache))]
    /\ UNCHANGED <<now, productCache, categoryCache, nextSweep, store, reqs>>

InitScore ==
    /\ now = 0
    /\ scoreCache = EmptyMap
    /\ productCache = EmptyMap
    /\ categoryCache = EmptyMap
    /\ nextSweep = SWEEP_INTERVAL
    /\ store = 1
    /\ reqs = [r \in Requests |-> IdleRequest]
    /\ test = [pc |-> "first", calls |-> <<>>]

\* Time passes between the two calls.
Elapse ==
    /\ test.pc = "second"
    /\ now + StepMs <= MaxTime
    /\ now' = now + StepMs
    /\ UNCHANGED <<scoreCache, productCache, categoryCache, nextSweep, store, reqs, test>>

\* The sweeper runs between the two calls.
Sweep == test.pc = "second" /\ cleanExpiredCache

NextScore ==
    \/ \E h \in Handles, conditions \in HarnessLists : FirstCall(h, conditions)
    \/ \E h \in Handles, conditions \in HarnessLists : SecondCall(h, conditions)
    \/ Elapse
    \/ Sweep

SpecScore == InitScore /\ [][NextScore]_vars

(***************************************************************************)
(* The text harness: normalizeIngredient applied to a string and then to   *)
(* its own result, and hasIngredient asked for a target in the Set that    *)
(* preprocessIngredients makes of the string.                              *)
(***************************************************************************)

\* A letter, a capital, white space and a bracket
TextAlphabet == {"a", "B", " ", "("}

\* Every string of at most n characters of the alphabet
RECURSIVE StringsUpTo(_)
StringsUpTo(n) ==
    IF n = 0 THEN {""}
    ELSE LET shorter == StringsUpTo(n - 1)
         IN  shorter \cup {t \o c : t \in shorter, c \in TextAlphabet}

\* Ingredient texts as a product page gives them
IngredientTexts ==
    { "Alcohol Denat.",
      "Alcohol Denat. (SD Alcohol 40-B)",
      "Aqua, Cetyl Alcohol, Alcohol Denat.x",
      "Stearyl Alcohol; Denatured Alcohol",
      "Aqua, Isopropyl Alcohol Denat." }

TextInputs == StringsUpTo(MaxLen) \cup IngredientTexts

\* The targets hasIngredient is asked for: entries of INGREDIENT_DATABASE
\* and one member of the alphabet
TextTargets == { "alcohol denat.", "alcohol", "stearyl alcohol", "a" }

TextCall(s) ==
    [ pc |-> "text", calls |-> <<>>, s |-> s, once |-> "", twice |-> "",
      members |-> <<>>, target |-> "", found |-> FALSE ]

InitText ==
    /\ now = 0
    /\ scoreCache = EmptyMap
    /\ productCache = EmptyMap
    /\ categoryCache = EmptyMap
    /\ nextSweep = SWEEP_INTERVAL
    /\ store = 1
    /\ reqs = [r \in Requests |-> IdleRequest]
    /\ test \in {TextCall(s) : s \in TextInputs}

Normalize ==
    /\ test.pc = "text"
    /\ test' = [test EXCEPT !.pc = "once", !.once = normalizeIngredient(test.s)]
    /\ UNCHANGED <<now, scoreCache, productCache, categoryCache, nextSweep, store, reqs>>

NormalizeAgain ==
    /\ test.pc = "once"
    /\ test' = [test EXCEPT !.pc = "twice", !.twice = normalizeIngredient(test.once)]
    /\ UNCHANGED <<now, scoreCache, productCache, categoryCache, nextSweep, store, reqs>>

Preprocess ==
    /\ test.pc = "text"
    /\ test' = [test EXCEPT !.pc = "set", !.members = preprocessIngredients(test.s)]
    /\ UNCHANGED <<now, scoreCache, productCache, categoryCache, nextSweep, store, reqs>>

Match(target) ==
    /\ test.pc = "set"
    /\ test' = [test EXCEPT !.pc = "matched", !.target = target,
                            !.found = hasIngredient(test.members, target)]
    /\ UNCHANGED <<now, scoreCache, productCache, categoryCache, nextSweep, store, reqs>>

NextText ==
    \/ Normalize
    \/ NormalizeAgain
    \/ Preprocess
    \/ \E target \in TextTargets : Match(target)

SpecText == InitText /\ [][NextText]_vars

(***************************************************************************)
(* Properties of the Ingredient Normalizer and Matcher, checked on         *)
(* SpecText                                                                *)
(***************************************************************************)

\* C21: normalizing a normalized string changes nothing.
C21_Idempotent == test.pc = "twice" => test.twice = test.once

\* The target occurs in the member between non-word characters or string
\* edges.
WholeWordIn(member, target) ==
    \E i \in 1..(Len(member) - Len(target) + 1) :
        /\ SubSeq(member, i, i + Len(target) - 1) = target
        /\ (i = 1 \/ ~IsWordChar(CharAt(member, i - 1)))
        /\ (i + Len(target) - 1 = Len(member)
               \/ ~IsWordChar(CharAt(member, i + Len(target))))

\* C22: hasIngredient answers true exactly when the normalized target is a
\* member of the set or occurs in a member as a whole word.
C22_WholeWordMatch ==
    test.pc = "matched" =>
        (test.found <=>
            \E i \in 1..Len(test.members) :
                \/ test.members[i] = normalizeIngredient(test.target)
                \/ WholeWordIn(test.members[i], normalizeIngredient(test.target)))

(***************************************************************************)
(* Properties of the Scoring Engine and the Score Cache, checked on        *)
(* SpecScore                                                               *)
(***************************************************************************)

FIVE_MINUTES == 5 * 60 * 1000

Done == test.pc = "done"

\* The time between the two calls
Age == test.calls[2].at - test.calls[1].at

\* The second call found an entry under its key, whatever its age
EntryPresent == test.calls[2].key \in test.calls[2].keysBefore

\* C2: when an entry for the product id and the condition members was stored
\* less than five minutes before a call, the call returns the stored score and
\* runs no ingredient matching, also when the call is made with another
\* object of the product (its data replaced) and the members in another order.
C2_LiveEntryServed ==
    (Done /\ EntryPresent /\ Age < FIVE_MINUTES)
        => /\ ~test.calls[2].computed
           /\ test.calls[2].score = test.calls[1].score

\* A live entry is served for a replaced product object that would score
\* differently, to a call that names the members in another order.
C2_Witness ==
    /\ Done /\ EntryPresent /\ Age > 0 /\ Age < FIVE_MINUTES
    /\ test.calls[2].h # test.calls[1].h
    /\ test.calls[2].conditions # test.calls[1].conditions
    /\ ComputeScore(test.calls[2].h, test.calls[2].conditions) # test.calls[2].score

\* C3: every score calculateMatchScore returns and every score the Score
\* Cache holds is an integer from 0 to 100.
C3_ScoreInRange ==
    /\ \A i \in 1..Len(test.calls) : test.calls[i].score \in 0..100
    /\ \A k \in DOMAIN scoreCache : scoreCache[k].score \in 0..100

\* The clamp acts from above on a computed score and the multiplier applies.
C3_Witness ==
    /\ test.pc = "second"
    /\ SumConditions(test.calls[1].h, test.calls[1].conditions) > 100
    /\ IngredientCountOf[test.calls[1].h] > 10
    /\ test.calls[1].score = 100
    /\ scoreCache[test.calls[1].key].score = 100

\* The points of one condition as the statement of C4 gives them: 12 for each
\* beneficial ingredient the Matcher finds, 5 more when it is early among the
\* first five tokens, -25 for each avoid ingredient found, 8 when the name
\* names the condition, 15 when the description text does. early is the
\* whole-word test of the statement (wholeWord) or plain containment; the
\* description text is the short description, or the description when the
\* short description is empty.
StatedPoints(h, condition, wholeWord) ==
    LET product == ProductObjects[h]
        tokens == IngredientsList(product)
        entry == INGREDIENT_DATABASE[condition]
        firstFive == SubSeq(tokens, 1, IF Len(tokens) < 5 THEN Len(tokens) ELSE 5)
        early(target) ==
            \E k \in 1..Len(firstFive) :
                IF wholeWord
                THEN firstFive[k] = target \/ RegexWordTest(firstFive[k], target)
                ELSE includes(firstFive[k], target)
        found == {i \in 1..Len(entry.beneficial) : hasIngredient(tokens, entry.beneficial[i])}
        bonus == {i \in found : early(normalizeIngredient(entry.beneficial[i]))}
        avoided == {i \in 1..Len(entry.avoid) : hasIngredient(tokens, entry.avoid[i])}
        spaced == replaceFirst(condition, "-", " ")
        name == toLowerCase(product.name)
        text == toLowerCase(IF product.short_description # ""
                            THEN product.short_description ELSE product.description)
    IN  12 * Cardinality(found) + 5 * Cardinality(bonus) - 25 * Cardinality(avoided)
        + (IF includes(name, condition) \/ includes(name, spaced) THEN 8 ELSE 0)
        + (IF includes(text, condition) \/ includes(text, spaced) THEN 15 ELSE 0)

ContainmentPointsOf ==
    [h \in Handles, condition \in UsedConditions |-> StatedPoints(h, condition, FALSE)]

WholeWordPointsOf ==
    [h \in Handles, condition \in UsedConditions |-> StatedPoints(h, condition, TRUE)]

\* round(min(100, max(0, m * S))) over the conditions of the list that have a
\* Knowledge Base entry, m = 1.1 for more than 10 distinct tokens
StatedScore(pointsOf, h, conditions) ==
    LET sums[i \in 0..Len(conditions)] ==
            IF i = 0 THEN 0
            ELSE sums[i - 1] + (IF conditions[i] \in DOMAIN INGREDIENT_DATABASE
                                THEN pointsOf[h, conditions[i]] ELSE 0)
        tenths == (IF IngredientCountOf[h] > 10 THEN 11 ELSE 10) * sums[Len(conditions)]
        clamped == IF tenths < 0 THEN 0 ELSE IF tenths > 1000 THEN 1000 ELSE tenths
    IN  (clamped + 5) \div 10

C5_OrderIndependent ==
    (Done /\ test.calls[2].h = test.calls[1].h
          /\ ~test.calls[1].threw /\ ~test.calls[2].threw)
        => test.calls[2].score = test.calls[1].score

\* The second call names the members in another order and is served from the
\* entry of the first, whose score the multiplier or the clamp has shaped.
C5_Witness ==
    /\ Done
    /\ test.calls[2].h = test.calls[1].h
    /\ test.calls[2].conditions # test.calls[1].conditions
    /\ ~test.calls[2].computed
    /\ test.calls[2].score # SumConditions(test.calls[1].h, test.calls[1].conditions)

\* C6: two lists with the same members in different order give the same Score
\* Cache key for a product id, so both calls use one entry.
C6_SameKey ==
    Done => /\ test.calls[2].key = test.calls[1].key
            /\ DOMAIN scoreCache \subseteq {test.calls[1].key}

\* Two calls with differently ordered lists have left one entry.
C6_Witness ==
    /\ Done
    /\ test.calls[2].conditions # test.calls[1].conditions
    /\ DOMAIN scoreCache = {test.calls[1].key}

\* C7: the key of a call is the key of the list's distinct members, so a list
\* that repeats a member has the key of the list without the repetition.
C7_KeyOfDistinctMembers ==
    \A i \in 1..Len(test.calls) :
        test.calls[i].key
            = generateScoreCacheKey(ProductObjects[test.calls[i].h].id,
                                    Distinct(test.calls[i].conditions))

\* C8: a read is a hit exactly while the entry is younger than five minutes;
\* at an age of five minutes or more the call recomputes and leaves an entry
\* with the new score and the time of the call, whether the sweeper has taken
\* the old entry away or not; a hit leaves the entry as the first call made it.
C8_HitExactlyWhileYoung ==
    (Done /\ ~test.calls[1].threw /\ ~test.calls[2].threw)
        => /\ ~test.calls[2].computed <=> Age < FIVE_MINUTES
           /\ test.calls[2].key \in DOMAIN scoreCache
           /\ LET entry == scoreCache[test.calls[2].key]
              IN  IF test.calls[2].computed
                  THEN /\ entry.timestamp = test.calls[2].at
                       /\ entry.score = test.calls[2].score
                       /\ entry.score = ComputeScore(test.calls[2].h, test.calls[2].conditions)
                  ELSE /\ entry.timestamp = test.calls[1].at
                       /\ entry.score = test.calls[1].score

\* An entry exactly five minutes old, still in the map, is recomputed for a
\* replaced product object and gets a new score.
C8_Witness ==
    /\ Done
    /\ Age = FIVE_MINUTES
    /\ EntryPresent
    /\ test.calls[2].computed
    /\ test.calls[2].score # test.calls[1].score
    /\ scoreCache[test.calls[2].key].timestamp = now

\* C18: for every product object, whatever parts of its data are missing or
\* of another shape, a call of calculateMatchScore raises no error and
\* returns a score from 0 to 100.
C18_ScoringNeverThrows ==
    \A i \in 1..Len(test.calls) :
        ~test.calls[i].threw /\ test.calls[i].score \in 0..100

\* The product of the worked example: 'Niacinamide Serum', whose ingredients
\* start Niacinamide, Salicylic Acid, Zinc, Glycerin, Dimethicone and go on
\* with six that no Knowledge Base list names
ExampleProduct == CHOOSE h \in Handles : ProductObjects[h].name = "Niacinamide Serum"

\* A call of the harness that computes the score of the worked example
ExampleCall(i) ==
    /\ test.calls[i].h = ExampleProduct
    /\ test.calls[i].conditions \in {<<"acne", "oily">>, <<"oily", "acne">>}
    /\ test.calls[i].computed

TEN_MINUTES == 10 * 60 * 1000

\* The request waits for the store on the miss path of the products cache
Waiting(r) == reqs[r].pc \in {"categories", "products"}

Succeeded(r) == reqs[r].status = 200

\* C1: of the requests of one budget tier whose products-cache reads fall
\* between the start of a request that fetches and the end of the ten minutes
\* its stored collection lives, only that request fetches, and all use the
\* collection it stored; no two of them wait for the store at once.
C1_OneFetchPerWindow ==
    \A r1, r2 \in Requests :
        (r1 # r2 /\ reqs[r1].budget = reqs[r2].budget)
            => /\ ~(Waiting(r1) /\ Waiting(r2))
               /\ ( /\ Succeeded(r1) /\ reqs[r1].ref = r1
                    /\ Succeeded(r2)
                    /\ reqs[r2].checkedAt >= reqs[r1].checkedAt
                    /\ reqs[r2].checkedAt < reqs[r1].resolvedAt + TEN_MINUTES )
                  => (~reqs[r2].fetched /\ reqs[r2].ref = r1)

\* The product list of the response of request r: products and scores in order
ResponseList(r) ==
    [i \in 1..Len(reqs[r].products) |->
        [h |-> reqs[r].products[i].h, matchScore |-> reqs[r].products[i].matchScore]]

AllFresh(r) ==
    \A i \in 1..Len(reqs[r].scores) : reqs[r].scores[i].from = reqs[r].scores[i].h

SameMembers(c1, c2) == SortedOf[c1] = SortedOf[c2]

PricedAt(h, units) ==
    ProductObjects[h].price \in {NumToString(units), NumToString(units) \o ".00"}

\* The product objects the request scored: productsInBudget
Kept(r) == {reqs[r].scores[i].h : i \in 1..Len(reqs[r].scores)}

\* C11: for each budget tier, a request that is answered 200 has scored the
\* products of its collection priced exactly at the tier's max and exactly
\* at its min, and none priced one unit above the max; the collection the
\* request resolved and every collection in the products cache is the
\* store's catalog without duplicates, unfiltered.
C11_BudgetBounds ==
    /\ \A r \in Requests :
           Succeeded(r) =>
               LET range == BUDGET_RANGES[reqs[r].budget]
               IN  \A k \in 1..Len(reqs[r].allProducts) :
                       LET h == reqs[r].allProducts[k]
                       IN  /\ PricedAt(h, range.max) => h \in Kept(r)
                           /\ PricedAt(h, range.min) => h \in Kept(r)
                           /\ PricedAt(h, range.max + 1) => h \notin Kept(r)
    /\ \A key \in DOMAIN productCache :
           productCache[key].data = Dedupe(Catalogs[productCache[key].version])
    /\ \A r \in Requests :
           Succeeded(r) => \E version \in 1..Len(Catalogs) :
                               reqs[r].allProducts = Dedupe(Catalogs[version])

\* Two answered requests, of the tiers mid and high, whose collection holds a
\* product priced 2500.00 (the max of mid, the min of high), which both
\* scored, and one priced 2501, which only the high one scored.
C11_Witness ==
    \E r1, r2 \in Requests :
        /\ Succeeded(r1) /\ reqs[r1].budget = "mid"
        /\ Succeeded(r2) /\ reqs[r2].budget = "high"
        /\ \E h \in Kept(r1) \cap Kept(r2) : ProductObjects[h].price = "2500.00"
        /\ \E h \in Kept(r2) \ Kept(r1) :
               /\ PricedAt(h, 2501)
               /\ \E k \in 1..Len(reqs[r1].allProducts) : reqs[r1].allProducts[k] = h
        /\ \E h \in Kept(r1) : PricedAt(h, 0)
        /\ \E h \in Kept(r2) : PricedAt(h, 5000)

\* The products cache holds an entry for the budget that is younger than ten
\* minutes
LiveCatalogEntry(budget) ==
    /\ generateProductCacheKey(budget) \in DOMAIN productCache
    /\ now - productCache[generateProductCacheKey(budget)].timestamp < TEN_MINUTES

\* C12: a request that passes validation and reads the products cache while
\* its budget tier has a live entry goes on to the ranking with the entry's
\* collection in the same step, without a call of the store and without a
\* write to the products or the category cache, whatever its conditions and
\* whatever the vision model answered.
C12_NoFetchWhileLive ==
    [][\A r \in Requests :
          ( /\ reqs[r].pc = "idle" /\ reqs'[r].pc # "idle"
            /\ reqs'[r].status # 400
            /\ LiveCatalogEntry(reqs'[r].budget) )
              => /\ reqs'[r].pc = "done"
                 /\ ~reqs'[r].fetched
                 /\ reqs'[r].allProducts
                        = productCache[generateProductCacheKey(reqs'[r].budget)].data
                 /\ productCache' = productCache
                 /\ categoryCache' = categoryCache]_vars

\* A request is answered from the collection another request stored five
\* minutes or more before, with other conditions after the merge and another
\* outcome of the vision model.
C12_Witness ==
    \E r1, r2 \in Requests :
        /\ r1 # r2
        /\ Succeeded(r1) /\ reqs[r1].ref = r1 /\ reqs[r1].fetched
        /\ Succeeded(r2) /\ reqs[r2].ref = r1 /\ ~reqs[r2].fetched
        /\ reqs[r2].budget = reqs[r1].budget
        /\ reqs[r2].conditions # reqs[r1].conditions
        /\ reqs[r2].aiError # reqs[r1].aiError
        /\ reqs[r2].checkedAt >= reqs[r1].resolvedAt + FIVE_MINUTES

\* Every score of the request was computed by the request itself
AllComputed(r) == \A i \in 1..Len(reqs[r].scores) : reqs[r].scores[i].computed

\* r1 and r2 are answered requests with the same condition members and
\* different budget tiers, r1 ranked first with nothing served from the Score
\* Cache, and no other request has scored
EarlierOtherTier(r1, r2) ==
    /\ r1 # r2
    /\ Succeeded(r1) /\ Succeeded(r2)
    /\ SameMembers(reqs[r1].conditions, reqs[r2].conditions)
    /\ reqs[r1].budget # reqs[r2].budget
    /\ reqs[r1].resolvedAt <= reqs[r2].resolvedAt
    /\ AllComputed(r1)
    /\ \A q \in Requests \ {r1, r2} : reqs[q].scores = <<>>

TIERS == {"low", "mid", "high", "luxury"}

\* The request was sent with a condition or a budget outside the enumerations
OutsideEnumerations(r) ==
    /\ reqs[r].pc # "idle"
    /\ \/ \E i \in 1..Len(reqs[r].given) : ~Contains(VALID_CONDITIONS, reqs[r].given[i])
       \/ reqs[r].budget \notin TIERS

\* C14: a request with a condition or a budget outside the enumerations is
\* answered 400 in the step that receives it: it never waits for the store,
\* scores nothing, and no cache map holds an entry made for it.
C14_InvalidRejected ==
    \A r \in Requests :
        OutsideEnumerations(r) =>
            /\ reqs[r].pc = "done" /\ reqs[r].status = 400
            /\ ~reqs[r].fetched /\ reqs[r].scores = <<>>
            /\ reqs[r].budget \notin TIERS
                   => generateProductCacheKey(reqs[r].budget) \notin DOMAIN productCache

(***************************************************************************)
(* Properties of the Recommendation Orchestrator, checked on Spec,         *)
(* continued                                                               *)
(***************************************************************************)

\* C15: a request whose image the face validator found not to be a human
\* face is answered 400 in that step, which leaves the three cache maps as
\* they are; the request has resolved no collection, called no store and
\* scored nothing, and nothing happens in it afterwards.
C15_FaceRejected ==
    [][\A r \in Requests :
          reqs'[r].face = "invalid"
              => /\ reqs'[r].pc = "done" /\ reqs'[r].status = 400
                 /\ reqs'[r].error = "Invalid image"
                 /\ ~reqs'[r].fetched /\ reqs'[r].ref = 0
                 /\ reqs'[r].allProducts = <<>> /\ reqs'[r].scores = <<>>
                 /\ reqs'[r].products = <<>>
                 /\ IF reqs[r].pc = "idle"
                    THEN UNCHANGED <<scoreCache, productCache, categoryCache>>
                    ELSE reqs'[r] = reqs[r]]_vars

\* A request is rejected for its image while the caches hold the collection
\* and the scores another request left.
C15_Witness ==
    \E r1, r2 \in Requests :
        /\ reqs[r1].face = "invalid" /\ reqs[r1].status = 400
        /\ reqs[r1].given # <<>>
        /\ Succeeded(r2) /\ r2 < r1
        /\ DOMAIN productCache # {} /\ DOMAIN scoreCache # {}

\* The step answers request r with the failure of a call of the store
FetchFails(r) == reqs[r].error # FETCH_ERROR /\ reqs'[r].error = FETCH_ERROR

\* C16, as amended: the failure of a call of the store ends the request with
\* 500 in the step of the failure, which changes no cache map, and the
\* request does nothing afterwards; before that the request has written
\* nothing when it read the products cache and missed, and only the category
\* cache when its categories call succeeded, leaving the products cache and
\* the Score Cache as they were.
C16_FailureKeepsCatalog ==
    [][\A r \in Requests :
          /\ FetchFails(r)
                => /\ Waiting(r)
                   /\ reqs'[r].pc = "done" /\ reqs'[r].status = 500
                   /\ UNCHANGED <<scoreCache, productCache, categoryCache>>
                   /\ reqs'[r].storedCategories <=> reqs[r].pc = "products"
                                                    /\ reqs[r].storedCategories
          /\ (reqs[r].pc = "idle" /\ reqs'[r].pc \in {"categories", "products"})
                => UNCHANGED <<scoreCache, productCache, categoryCache>>
          /\ (reqs[r].pc = "categories" /\ reqs'[r].pc = "products")
                => /\ UNCHANGED <<scoreCache, productCache>>
                   /\ "all_categories" \in DOMAIN categoryCache'
                   /\ categoryCache'["all_categories"].timestamp = now
                   /\ reqs'[r].storedCategories
          /\ reqs[r].error = FETCH_ERROR => reqs'[r] = reqs[r]]_vars

\* C16 as stated: a request that ends with the failure of a call of the store
\* has stored no entry in any cache map.
C16_AsStated ==
    \A r \in Requests : reqs[r].error = FETCH_ERROR => ~reqs[r].storedCategories

\* A request fails at the products call after it has replaced an expired
\* entry of the category cache, while the products cache still holds the
\* expired collection of an earlier request; a later request fetches again.
C16_Witness ==
    \E r1, r2, r3 \in Requests :
        /\ Succeeded(r1) /\ reqs[r1].fetched
        /\ reqs[r2].error = FETCH_ERROR /\ reqs[r2].storedCategories
        /\ reqs[r3].pc = "done" /\ reqs[r3].fetched /\ reqs[r3].ref = r3
        /\ reqs[r3].budget = reqs[r2].budget
        /\ reqs[r3].checkedAt >= reqs[r1].resolvedAt + TEN_MINUTES
        /\ r1 < r2 /\ r2 < r3

(***************************************************************************)
(* Properties of the Recommendation Orchestrator, checked on SpecInputs,   *)
(* continued                                                               *)
(***************************************************************************)

\* The request is done and none of its other collaborators failed it: its
\* image was accepted, its budget is a tier, and the store answered
NothingElseFailed(r) ==
    /\ reqs[r].pc = "done"
    /\ reqs[r].face = "valid"
    /\ reqs[r].budget \in TIERS
    /\ reqs[r].error # FETCH_ERROR

\* C17: a request that nothing else failed is answered 200 with the ranking
\* of its scores, also when the call of the vision model or the call for the
\* suggestions raised an error; after a failed detection the conditions are
\* the user-selected ones and every score is the score for exactly these;
\* after failed suggestions the suggestion list is empty.
C17_AiFailuresAbsorbed ==
    \A r \in Requests :
        NothingElseFailed(r) =>
            /\ Succeeded(r)
            /\ reqs[r].products = Slice(SortByScore(FilterByScore(reqs[r].scores)))
            /\ reqs[r].adviceFailed => reqs[r].suggestions = <<>>
            /\ reqs[r].aiError =>
                   /\ reqs[r].conditions = sort(reqs[r].given)
                   /\ \A i \in 1..Len(reqs[r].scores) :
                          reqs[r].scores[i].matchScore
                              = ComputeScore(reqs[r].scores[i].from, reqs[r].given)

\* Both calls failed for a request that returns products, while another
\* request of the tier, whose detection answered, was scored for more
\* conditions and got suggestions.
C17_Witness ==
    \E r1, r2 \in Requests :
        /\ Succeeded(r1) /\ reqs[r1].aiError /\ reqs[r1].adviceFailed
        /\ Len(reqs[r1].products) > 0 /\ reqs[r1].suggestions = <<>>
        /\ Succeeded(r2) /\ ~reqs[r2].aiError /\ ~reqs[r2].adviceFailed
        /\ reqs[r2].budget = reqs[r1].budget /\ reqs[r2].given = reqs[r1].given
        /\ reqs[r2].conditions # reqs[r1].conditions
        /\ reqs[r2].suggestions # <<>>

\* The members of a list
Members(list) == {list[i] : i \in 1..Len(list)}

\* C19: the conditions array a request is scored and keyed with holds every
\* user-selected condition, every detected condition, nothing else, and no
\* condition twice.
C19_DeduplicatedUnion ==
    \A r \in Requests :
        (reqs[r].pc # "idle" /\ reqs[r].face = "valid")
            => /\ Members(reqs[r].conditions)
                      = Members(reqs[r].given) \cup Members(reqs[r].detected)
               /\ \A i, j \in 1..Len(reqs[r].conditions) :
                      i # j => reqs[r].conditions[i] # reqs[r].conditions[j]

(***************************************************************************)
(* Properties of the Expiry Sweeper and of the cache entries, checked on   *)
(* SpecInputs                                                              *)
(***************************************************************************)

\* The keys of the entries of a cache that are younger than ttl at time t
YoungKeys(cache, t, ttl) == {k \in DOMAIN cache : t - cache[k].timestamp < ttl}

\* The map after keeps exactly the entries of the map before that are younger
\* than ttl, each as it was
KeepsYoung(before, after, t, ttl) ==
    /\ DOMAIN after = YoungKeys(before, t, ttl)
    /\ \A k \in DOMAIN after : after[k] = before[k]

\* C23: a run of the sweeper (the only step that moves nextSweep) leaves in
\* the score cache exactly the entries younger than five minutes and in the
\* catalog and category caches exactly the entries younger than ten minutes,
\* each with its value and timestamp.
C23_SweepExactlyExpired ==
    [][ nextSweep' # nextSweep =>
            /\ KeepsYoung(scoreCache, scoreCache', now, FIVE_MINUTES)
            /\ KeepsYoung(productCache, productCache', now, TEN_MINUTES)
            /\ KeepsYoung(categoryCache, categoryCache', now, TEN_MINUTES) ]_vars

\* The sweeper has run ten minutes after a request stored the categories and
\* the collection of one tier, and five minutes after a request stored the
\* collection of another tier and its scores: only the younger collection is
\* left.
C23_Witness ==
    /\ nextSweep = 2 * SWEEP_INTERVAL
    /\ DOMAIN productCache = {"products_budget_mid"}
    /\ productCache["products_budget_mid"].timestamp = now - FIVE_MINUTES
    /\ categoryCache = EmptyMap
    /\ scoreCache = EmptyMap
    /\ \E r1, r2 \in Requests :
           /\ Succeeded(r1) /\ reqs[r1].fetched /\ reqs[r1].budget = "low"
           /\ reqs[r1].resolvedAt = now - TEN_MINUTES
           /\ Succeeded(r2) /\ reqs[r2].fetched /\ reqs[r2].budget = "mid"
           /\ Len(reqs[r2].scores) > 0

(***************************************************************************)
(* Properties of the cache reads, checked on Spec                          *)
(***************************************************************************)

\* The request reads the catalog cache in this step: it leaves "idle" with
\* its body and image accepted
ReadsCatalog(r) == reqs[r].pc = "idle" /\ reqs'[r].pc # "idle" /\ reqs'[r].face = "valid"

\* The request ranks in this step
Ranks(r) == reqs[r].pc # "done" /\ reqs'[r].pc = "done" /\ reqs'[r].status = 200

\* What the catalog read of the step decides is what it would decide had the
\* sweeper run just before: served from the cache exactly when the tier's
\* entry would be left, and then with that entry's collection; else on to
\* GET products exactly when the category entry would be left.
CatalogReadAsSwept(r) ==
    LET key == generateProductCacheKey(reqs'[r].budget)
        served == key \in DOMAIN SweptProductCache(productCache, now)
        categories == "all_categories" \in DOMAIN SweptCategoryCache(categoryCache, now)
    IN  /\ (reqs'[r].pc = "done") <=> served
        /\ served => /\ reqs'[r].allProducts = productCache[key].data
                      /\ reqs'[r].ref = productCache[key].ref
        /\ ~served => ((reqs'[r].pc = "products") <=> categories)

\* The ranking of the step is the ranking over the score cache as the
\* sweeper would have left it, and the two leave the same live scores.
RankingAsSwept(r) ==
    \E ranked \in {Rank(reqs'[r].allProducts, reqs'[r].conditions, reqs'[r].budget,
                         SweptScoreCache(scoreCache, now), now)} :
        /\ reqs'[r].products = ranked.topProducts
        /\ reqs'[r].scores = ranked.scores
        /\ SweptScoreCache(scoreCache', now) = SweptScoreCache(ranked.cache, now)

\* C24: every read of the catalog, category and score caches gives what it
\* would give had the sweeper run just before the read, so that the
\* responses do not depend on when the sweeper runs.
C24_SweeperInvisible ==
    [][ \A r \in Requests :
            /\ ReadsCatalog(r) => CatalogReadAsSwept(r)
            /\ Ranks(r) => RankingAsSwept(r) ]_vars

\* No sweep has run. A request is served from the collection stored five
\* minutes before and computes every score, though the scores of that time
\* are in the map; a third request, five minutes on, fetches again though
\* the collection is in the map, and computes every score as well.
C24_Witness ==
    /\ nextSweep = SWEEP_INTERVAL
    /\ \E r1, r2, r3 \in Requests :
           /\ Succeeded(r1) /\ Succeeded(r2) /\ Succeeded(r3)
           /\ reqs[r1].fetched /\ ~reqs[r2].fetched /\ reqs[r3].fetched
           /\ reqs[r2].checkedAt = reqs[r1].resolvedAt + FIVE_MINUTES
           /\ reqs[r3].checkedAt = reqs[r1].resolvedAt + TEN_MINUTES
           /\ reqs[r2].conditions = reqs[r1].conditions
           /\ reqs[r3].conditions = reqs[r1].conditions
           /\ Len(reqs[r1].scores) > 0
           /\ AllComputed(r2) /\ AllComputed(r3)

(***************************************************************************)
(* Properties of the stored catalog, checked on Spec                       *)
(***************************************************************************)

\* The ids of the product objects of a list
IdsOf(list) == {ProductObjects[list[i]].id : i \in 1..Len(list)}

\* C25: the collection of every catalog cache entry holds each product id of
\* the fetched list exactly once, with the object of the id's last occurrence
\* in the fetched list.
C25_LastOccurrenceStored ==
    \A key \in DOMAIN productCache :
        LET data == productCache[key].data
            fetched == Catalogs[productCache[key].version]
        IN  /\ IdsOf(data) = IdsOf(fetched)
            /\ \A i, j \in 1..Len(data) :
                   i # j => ProductObjects[data[i]].id # ProductObjects[data[j]].id
            /\ \A i \in 1..Len(data) :
                   \E j \in 1..Len(fetched) :
                       /\ fetched[j] = data[i]
                       /\ \A k \in (j + 1)..Len(fetched) :
                              ProductObjects[fetched[k]].id # ProductObjects[data[i]].id

\* A collection is stored from a fetched list that names an id twice, with
\* two objects: the stored list is one shorter and holds the later object.
C25_Witness ==
    \E key \in DOMAIN productCache :
        LET data == productCache[key].data
            fetched == Catalogs[productCache[key].version]
        IN  /\ Len(data) = Len(fetched) - 1
            /\ \E i, j \in 1..Len(fetched) :
                   /\ i < j /\ fetched[i] # fetched[j]
                   /\ ProductObjects[fetched[i]].id = ProductObjects[fetched[j]].id
                   /\ \E k \in 1..Len(data) : data[k] = fetched[j]
                   /\ \A k \in 1..Len(data) : data[k] # fetched[i]

(***************************************************************************)
(* Properties of the merged conditions, checked on SpecDetector            *)
(***************************************************************************)

\* C26: every member of the conditions a request was scored for, and of the
\* conditions behind every key of the score cache, has an entry in the
\* Knowledge Base.
C26_ConditionsKnown ==
    /\ \A r \in Requests :
           reqs[r].pc = "done" /\ reqs[r].face = "valid" =>
               Members(reqs[r].conditions) \subseteq DOMAIN INGREDIENT_DATABASE
    /\ \A key \in DOMAIN scoreCache :
           \E productId \in ProductIds, conditions \in KnownLists :
               /\ key = ScoreCacheKeyOf[productId, conditions]
               /\ Members(conditions) \subseteq DOMAIN INGREDIENT_DATABASE

(***************************************************************************)
(* Properties of the age of what the caches serve, checked on SpecAges     *)
(***************************************************************************)

\* The request is answered from the catalog cache in this step
ServedFromCache(r) == ReadsCatalog(r) /\ reqs'[r].pc = "done"

\* The entry the step serves the collection from is left as it was; it was
\* stored by the request it names, at the time it carries, less than ten
\* minutes ago.
CatalogHitYoung(r) ==
    LET key == generateProductCacheKey(reqs'[r].budget)
        by == productCache[key].ref
    IN  /\ productCache' = productCache
        /\ reqs[by].fetched /\ reqs[by].pc = "done"
        /\ reqs[by].resolvedAt = productCache[key].timestamp
        /\ now - reqs[by].resolvedAt < TEN_MINUTES

\* Every score the step takes from the score cache comes from an entry that
\* is left as it was; a request computed it at the time the entry carries,
\* less than five minutes ago.
ScoreHitsYoung(r) ==
    \A i \in 1..Len(reqs'[r].scores) :
        ~reqs'[r].scores[i].computed =>
            LET key == ScoreCacheKeyOf[ProductObjects[reqs'[r].scores[i].h].id,
                                       reqs'[r].conditions]
            IN  /\ key \in DOMAIN scoreCache
                /\ scoreCache'[key] = scoreCache[key]
                /\ now - scoreCache[key].timestamp < FIVE_MINUTES
                /\ \E q \in Requests :
                       /\ reqs[q].resolvedAt = scoreCache[key].timestamp
                       /\ \E j \in 1..Len(reqs[q].scores) :
                              /\ reqs[q].scores[j].computed
                              /\ reqs[q].scores[j].from = scoreCache[key].from
                              /\ reqs[q].scores[j].matchScore = scoreCache[key].score

\* C27: a hit leaves the entry and its timestamp as they were, every score
\* served from the score cache was computed less than five minutes before
\* the read, and every collection served from the catalog cache was stored
\* less than ten minutes before the read.
C27_NoSlidingExpiration ==
    [][ \A r \in Requests :
            /\ ServedFromCache(r) => CatalogHitYoung(r)
            /\ Ranks(r) => ScoreHitsYoung(r) ]_vars

\* A request computes the scores; a second one, two and a half minutes on,
\* is served all of them from the cache; a third one, five minutes after
\* the first, is served the collection from the cache and computes every
\* score again.
C27_Witness ==
    \E r1, r2, r3 \in Requests :
        /\ Succeeded(r1) /\ Succeeded(r2) /\ Succeeded(r3)
        /\ reqs[r1].fetched /\ ~reqs[r2].fetched /\ ~reqs[r3].fetched
        /\ Len(reqs[r1].scores) > 0 /\ AllComputed(r1)
        /\ reqs[r2].resolvedAt = reqs[r1].resolvedAt + StepMs
        /\ \A i \in 1..Len(reqs[r2].scores) : ~reqs[r2].scores[i].computed
        /\ reqs[r3].resolvedAt = reqs[r1].resolvedAt + FIVE_MINUTES
        /\ Len(reqs[r3].scores) > 0 /\ AllComputed(r3)

(***************************************************************************)
(* Properties of the cached catalog, checked on Spec                       *)
(***************************************************************************)

\* The step is the end of a fetch of the tier of key, which stores the
\* fetched list without its duplicates under the present time
Refetched(key) ==
    /\ \E r \in Requests :
           /\ reqs[r].pc = "products" /\ reqs'[r].pc = "done" /\ reqs'[r].error # FETCH_ERROR
           /\ generateProductCacheKey(reqs[r].budget) = key
           /\ productCache'[key].ref = r
    /\ productCache'[key].data = Dedupe(Catalogs[productCache'[key].version])
    /\ productCache'[key].timestamp = now

\* C28: an entry of the catalog cache, its array and with it the product
\* objects the array holds, is the same after every step, unless the step
\* ends a fetch of the entry's tier and stores the fetched collection, or
\* the sweeper deletes the entry.
C28_CatalogImmutable ==
    [][ /\ \A key \in DOMAIN productCache' :
               (key \notin DOMAIN productCache \/ productCache'[key] # productCache[key])
                   => Refetched(key)
        /\ \A key \in DOMAIN productCache \ DOMAIN productCache' :
               nextSweep' # nextSweep ]_vars

\* A request was served from the collection another request had stored: the
\* budget filter dropped products, the ranking has another order than the
\* collection, and the entry still holds the collection as it was fetched.
C28_Witness ==
    \E r1, r2 \in Requests :
        LET key == generateProductCacheKey(reqs[r2].budget)
        IN  /\ r1 # r2
            /\ Succeeded(r1) /\ reqs[r1].fetched
            /\ Succeeded(r2) /\ ~reqs[r2].fetched /\ reqs[r2].ref = r1
            /\ key \in DOMAIN productCache
            /\ productCache[key].ref = r1
            /\ productCache[key].data = Dedupe(Catalogs[productCache[key].version])
            /\ reqs[r2].allProducts = productCache[key].data
            /\ Len(reqs[r2].scores) < Len(productCache[key].data)
            /\ Len(reqs[r2].products) > 1
            /\ \E i, j \in 1..Len(reqs[r2].scores) :
                   /\ i < j
                   /\ reqs[r2].scores[i].matchScore < reqs[r2].scores[j].matchScore
                   /\ reqs[r2].scores[j].matchScore >= MIN_MATCH_SCORE

(***************************************************************************)
(* Properties of concurrent fetches, checked on Spec                       *)
(***************************************************************************)

\* C29: the collection a step stores for a tier is of a catalog no older
\* than the one of the collection it replaces, and of two entries the one
\* with the later timestamp never holds the older catalog.
C29_StampedeHarmless ==
    [][ /\ \A key \in DOMAIN productCache \cap DOMAIN productCache' :
               productCache'[key].version >= productCache[key].version
        /\ \A k1, k2 \in DOMAIN productCache' :
               productCache'[k1].timestamp > productCache'[k2].timestamp
                   => productCache'[k1].version >= productCache'[k2].version ]_vars

(***************************************************************************)
(* Properties of the Expiry Sweeper in time, checked on SpecAgesFair       *)
(***************************************************************************)

\* The keys of the entries of a cache whose age has reached ttl
OldKeys(cache, ttl) == {k \in DOMAIN cache : now - cache[k].timestamp >= ttl}

\* Some map holds an entry whose age has reached its time-to-live
SomeExpired ==
    \/ OldKeys(scoreCache, FIVE_MINUTES) # {}
    \/ OldKeys(productCache, TEN_MINUTES) # {}
    \/ OldKeys(categoryCache, TEN_MINUTES) # {}

\* The clock of the model, which goes on in steps of StepMs up to MaxTime,
\* reaches the time at which the timer of the sweeper is due
SweepDue == nextSweep <= now + ((MaxTime - now) \div StepMs) * StepMs

\* C30: whenever a map holds expired entries and a run of the sweeper is due
\* within the time the model covers, a later state holds none: an entry that
\* has expired stays expired while it is in the map, so each of them has by
\* then been deleted, or overwritten by a request.
C30_ExpiredEventuallyGone ==
    (SomeExpired /\ SweepDue) ~> ~SomeExpired

\* The sweeper has run: the collection, the categories and the scores a
\* request stored ten minutes before are gone from the maps, and what is
\* left is younger than its time-to-live.
C30_Witness ==
    /\ nextSweep = 2 * SWEEP_INTERVAL
    /\ ~SomeExpired
    /\ productCache = EmptyMap /\ categoryCache = EmptyMap
    /\ \E r \in Requests :
           /\ Succeeded(r) /\ reqs[r].fetched
           /\ Len(reqs[r].scores) > 0 /\ AllComputed(r)
           /\ reqs[r].resolvedAt = now - TEN_MINUTES

=============================================================================
